---- MODULE Spec2Model ----
(***************************************************************************)
(* Model of the scenario-to-test pipeline of playwright-ai:                *)
(*   runCLI: getTestScenario -> generateTest (createPrompt,                *)
(*           generateTestCode) -> executeTest (saveTestFile, runTest,       *)
(*           formatTestResult) -> rl.close().                               *)
(*                                                                         *)
(* Text is a sequence of atoms.  In a completion every atom is one         *)
(* character; the backquote character is written "BQ".  Fixed message       *)
(* literals of the source are one atom each, glossed in ASCII; the source   *)
(* literal is quoted in the comment next to each.                          *)
(***************************************************************************)
EXTENDS Integers, Sequences, FiniteSets, TLC

VARIABLES
    pc,         \* position of runCLI: which await it is suspended on
    env,        \* process.env: LLM, API_KEY, LLM_BASE_URL, TEST_TARGET_BASE_URL
    scenario,   \* TestScenario returned by getTestScenario
    prompt,     \* AIPrompt built by createPrompt
    requests,   \* HTTP requests issued through fetch, in order
    response,   \* the Response fetch resolved with
    aiResponse, \* AIResponse returned by generateTestCode
    test,       \* GeneratedTest returned by generateTest
    files,      \* the tests directory: set of [name, content]
    fsCalls,    \* fs calls issued (mkdir, writeFile), in order
    spawned,    \* commands handed to exec, in order
    execError,  \* the value exec rejected with
    execOutput, \* the {stdout, stderr} exec resolved with
    runTestInput, \* the answer to the run confirmation of executeTest
    returnedPath, \* the path saveTestFile returned (testFilePath of executeTest)
    result,     \* TestResult returned by runTest
    report,     \* text returned by formatTestResult
    thrown,     \* message of the error caught by runCLI
    errLog,     \* console.error entries, in order
    rlClosed,   \* number of rl.close() calls
    run,        \* runTest while it awaits exec: [command, startTime, logs]
    clock,      \* Date.now()
    trace       \* history: the stage events in the order they happened

vars == <<pc, env, scenario, prompt, requests, response, aiResponse, test,
          runTestInput, files, fsCalls, returnedPath, spawned, execError, execOutput,
          result, report, thrown, errLog, rlClosed, run, clock, trace>>

-----------------------------------------------------------------------------
(* Bounds of the model *)

\* number of segments a completion text is assembled from
MaxSegs == 4
\* number of saveTestFile calls in a row
MaxSaves == 2

\* largest number of clock ticks that pass while the subprocess runs
MaxElapsed == 1

-----------------------------------------------------------------------------
(* Text helpers *)

Empty == <<>>                   \* the empty string ""

\* p occurs in s starting at index i
OccursAt(s, p, i) ==
    /\ i >= 1
    /\ i + Len(p) - 1 <= Len(s)
    /\ \A k \in 1..Len(p) : s[i + k - 1] = p[k]

\* String.prototype.includes
Contains(s, p) == \E i \in 1..(Len(s) + 1) : OccursAt(s, p, i)

Min(S) == CHOOSE x \in S : \A y \in S : x <= y
Max(S) == CHOOSE x \in S : \A y \in S : x >= y

\* white space removed by String.prototype.trim
WhiteSpace == {" ", "\n"}

\* String.prototype.trim
Trim(s) ==
    LET keep == {i \in 1..Len(s) : s[i] \notin WhiteSpace}
    IN  IF keep = {} THEN Empty ELSE SubSeq(s, Min(keep), Max(keep))

\* String.prototype.toLowerCase on the answers the model draws
ToLowerCase(s) == [i \in 1..Len(s) |-> IF s[i] = "Y" THEN "y"
                                       ELSE IF s[i] = "N" THEN "n" ELSE s[i]]

-----------------------------------------------------------------------------
(* Objects with optional fields are functions whose domain holds the fields *)
(* that are set.                                                            *)

Has(o, k) == k \in DOMAIN o
Field(k, set, v) == IF set THEN k :> v ELSE <<>>
Undefined == <<>>               \* undefined / null: no field can be read
IsUndefined(o) == DOMAIN o = {}

-----------------------------------------------------------------------------
(* ai module: configuration *)

\* getApiKey throws when API_KEY is unset or empty
ApiKeyMissing(e) == ~(Has(e, "API_KEY") /\ e.API_KEY # Empty)

\* process.env[k]: Undefined when the variable is unset
EnvGet(e, k) == IF Has(e, k) THEN e[k] ELSE Undefined

\* the value getApiKey returns
getApiKey(e) == EnvGet(e, "API_KEY")

\* isLocalLLM: process.env.LLM === "local"
isLocalLLM(e) == Has(e, "LLM") /\ e.LLM = <<"local">>

\* getLocalLLMBaseURL throws when LLM_BASE_URL is unset or empty
LocalBaseURLMissing(e) == ~(Has(e, "LLM_BASE_URL") /\ e.LLM_BASE_URL # Empty)

\* the value getLocalLLMBaseURL returns
getLocalLLMBaseURL(e) == EnvGet(e, "LLM_BASE_URL")

\* "API_KEYが設定されていません。.envファイルを確認してください。"
MsgApiKeyMissing == <<"API_KEY is not set. Check the .env file.">>

\* "LLM_BASE_URLが設定されていません。.envファイルを確認してください。"
MsgBaseURLMissing == <<"LLM_BASE_URL is not set. Check the .env file.">>

\* variant of ConfigError that checks the API key whatever variant is selected
ConfigError_HostedOnly(e) ==
    IF ApiKeyMissing(e) THEN [message |-> MsgApiKeyMissing] ELSE Undefined

\* the message of the error the configuration getters throw, for the variant
\* selected; Undefined when the selected variant is configured
ConfigError(e) ==
    IF isLocalLLM(e)
    THEN IF LocalBaseURLMissing(e) THEN [message |-> MsgBaseURLMissing] ELSE Undefined
    ELSE IF ApiKeyMissing(e) THEN [message |-> MsgApiKeyMissing] ELSE Undefined

-----------------------------------------------------------------------------
(* ai module: createPrompt *)

SYSTEM_PROMPT == <<"SYSTEM_PROMPT">>

\* "以下のテストシナリオに基づいて、Playwrightのテストコードを生成してください：\n\n"
PromptHead == <<"Generate Playwright test code for this scenario:", "\n", "\n">>
\* "テスト対象のURL: "
LabelURL == "Target URL: "
\* "- ブラウザ: "
LabelBrowser == "- browser: "
\* "- ヘッドレスモード: "
LabelHeadless == "- headless: "
\* "- スクリーンショット: "
LabelScreenshot == "- screenshot: "
\* "- タイムアウト: "
LabelTimeout == "- timeout: "
\* "有効" / "無効"
OnOff(b) == IF b THEN "enabled" ELSE "disabled"

\* getBaseUrl: process.env.TEST_TARGET_BASE_URL
getBaseUrl(e) == EnvGet(e, "TEST_TARGET_BASE_URL")

\* variant of PromptURL without the fallback to the default base URL, as in
\* the module before getBaseUrl was introduced
PromptURL_NoBase(s, e) ==
    IF Has(s, "url") /\ s.url # Empty
    THEN <<LabelURL>> \o s.url \o <<"\n", "\n">>
    ELSE Empty

\* the target-URL part of the user prompt
PromptURL(s, e) ==
    IF Has(s, "url") /\ s.url # Empty
    THEN <<LabelURL>> \o s.url \o <<"\n", "\n">>
    ELSE IF getBaseUrl(e) # Empty
         THEN <<LabelURL>> \o getBaseUrl(e) \o <<"\n", "\n">>
         ELSE Empty

\* the directive lines of the user prompt
PromptOptions(s) ==
    IF ~Has(s, "options") THEN Empty
    ELSE LET o == s.options IN
         (IF Has(o, "browser") /\ o.browser # Empty
          THEN <<LabelBrowser>> \o o.browser \o <<"\n">> ELSE Empty)
      \o (IF Has(o, "headless")
          THEN <<LabelHeadless, OnOff(o.headless), "\n">> ELSE Empty)
      \o (IF Has(o, "screenshot")
          THEN <<LabelScreenshot, OnOff(o.screenshot), "\n">> ELSE Empty)
      \o (IF Has(o, "timeout") /\ o.timeout # 0
          THEN <<LabelTimeout, ToString(o.timeout), "ms", "\n">> ELSE Empty)

createPrompt(s, e) ==
    [system |-> SYSTEM_PROMPT,
     user   |-> PromptHead \o s.description \o <<"\n", "\n">>
                \o PromptURL(s, e) \o PromptOptions(s)]

-----------------------------------------------------------------------------
(* ai module: generateTestCode, the request *)

MaxTokens == 4000

\* the request of the local variant (LM Studio)
LocalRequest(p, e) ==
    [url     |-> getLocalLLMBaseURL(e) \o <<"/v1/chat/completions">>,
     method  |-> "POST",
     headers |-> [ContentType |-> "application/json"],
     body    |-> [model      |-> "local-model",
                  max_tokens |-> MaxTokens,
                  messages   |-> <<[role |-> "system", content |-> p.system],
                                   [role |-> "user", content |-> p.user]>>]]

\* the request of the hosted variant
HostedRequest(p, e) ==
    [url     |-> <<"https://api.anthropic.com/v1/messages">>,
     method  |-> "POST",
     headers |-> [ContentType |-> "application/json",
                  x_api_key   |-> getApiKey(e),
                  anthropic_version |-> "2023-06-01"],
     body    |-> [model      |-> "claude-3-opus-20240229",
                  max_tokens |-> MaxTokens,
                  system     |-> p.system,
                  messages   |-> <<[role |-> "user", content |-> p.user]>>]]

BuildRequest(p, e) == IF isLocalLLM(e) THEN LocalRequest(p, e) ELSE HostedRequest(p, e)

-----------------------------------------------------------------------------
(* ai module: generateTestCode, the response                                *)
(* A Response is [ok, statusText, body]; a body is [kind |-> "text"] (not   *)
(* JSON) or [kind |-> "object", value |-> v] with v a JSON object.          *)

\* message of the SyntaxError response.json() rejects with
MsgJsonSyntax == <<"Unexpected token < in JSON at position 0">>
\* message of the TypeError a property read of null or undefined throws
MsgTypeError == <<"Cannot read properties of undefined">>
\* message of the TypeError fetch rejects with on a transport failure
MsgFetchFailed == <<"fetch failed">>

\* `API error: ${errorData.error?.message || response.statusText}`
ApiErrorMessage(errorData, statusText) ==
    <<"API error: ">> \o
    (IF Has(errorData, "error") /\ Has(errorData.error, "message")
        /\ errorData.error.message # Empty
     THEN errorData.error.message
     ELSE statusText)

\* the error thrown inside the try block for a response that is not ok
NotOkError(r) ==
    CASE r.body.kind = "text"   -> [message |-> MsgJsonSyntax]
      [] r.body.kind = "object" ->
            [message |-> ApiErrorMessage(r.body.value, r.statusText)]

\* data.choices[0].message.content does not throw
LocalContentReadable(data) ==
    /\ Has(data, "choices") /\ Len(data.choices) >= 1
    /\ Has(data.choices[1], "message")

\* variant of LocalContent that reads choices[0].text, the field of the legacy
\* completions format, which a chat completion does not have
LocalContent_WrongField(data) ==
    IF Has(data.choices[1], "text") THEN data.choices[1].text ELSE Undefined

\* data.choices[0].message.content
LocalContent(data) == data.choices[1].message.content

\* data.content[0].text does not throw
HostedContentReadable(data) == Has(data, "content") /\ Len(data.content) >= 1

\* data.content[0].text
HostedContent(data) == data.content[1].text

\* variant of ContentReadable that takes an empty completion for a missing one
\* (if (!content) throw ...)
ContentReadable_NonEmpty(local, r) ==
    /\ r.body.kind = "object"
    /\ IF local THEN /\ LocalContentReadable(r.body.value)
                     /\ LocalContent(r.body.value) # <<>>
                ELSE /\ HostedContentReadable(r.body.value)
                     /\ HostedContent(r.body.value) # <<>>

\* the body of an ok response yields a completion string
ContentReadable(local, r) ==
    /\ r.body.kind = "object"
    /\ IF local THEN LocalContentReadable(r.body.value)
                ELSE HostedContentReadable(r.body.value)

\* the error thrown inside the try block for an ok response without one
OkError(r) ==
    CASE r.body.kind = "text"   -> [message |-> MsgJsonSyntax]
      [] OTHER                  -> [message |-> MsgTypeError]

\* content, the completion both variants normalise to
ExtractContent(local, r) ==
    IF local THEN LocalContent(r.body.value) ELSE HostedContent(r.body.value)

\* "AIによるテストコード生成に失敗しました: "
MsgGenerateFailed == "AI test code generation failed: "

\* the error generateTestCode rejects with, from the error its try block caught
GenerateError(err) == [message |-> <<MsgGenerateFailed>> \o err.message]

-----------------------------------------------------------------------------
(* ai module: generateTestCode, the parse step                              *)
(* /```typescript\n([\s\S]*?)```/                                           *)

OpenFence == <<"BQ", "BQ", "BQ", "t", "y", "p", "e", "s", "c", "r", "i", "p", "t", "\n">>
CloseFence == <<"BQ", "BQ", "BQ">>

\* the positions at which the lazy group can stop when the match starts at i
ClosesAfter(c, i) ==
    {j \in (i + Len(OpenFence))..(Len(c) + 1) : OccursAt(c, CloseFence, j)}

\* the start positions at which the regular expression matches
MatchStarts(c) ==
    {i \in 1..Len(c) : OccursAt(c, OpenFence, i) /\ ClosesAfter(c, i) # {}}

\* variant of LazyStop for a greedy group: it stops at the last closing fence
LazyStop_Greedy(c, i) == Max(ClosesAfter(c, i))

\* where the lazy group stops: at the first closing fence
LazyStop(c, i) == Min(ClosesAfter(c, i))

\* the first match: [index, last, group1], or Undefined (null) without a match
RegexMatch(c) ==
    IF MatchStarts(c) = {} THEN Undefined
    ELSE LET i == Min(MatchStarts(c))
             j == LazyStop(c, i)
         IN  [index  |-> i,
              last   |-> j + Len(CloseFence) - 1,
              group1 |-> SubSeq(c, i + Len(OpenFence), j - 1)]

\* variant of RemoveMatch for a regular expression with the g flag: every match
\* is removed
RECURSIVE RemoveMatch_Global(_)
RemoveMatch_Global(c) ==
    LET m == RegexMatch(c)
    IN  IF IsUndefined(m) THEN c
        ELSE SubSeq(c, 1, m.index - 1)
             \o RemoveMatch_Global(SubSeq(c, m.last + 1, Len(c)))

\* content.replace(regex, "")
RemoveMatch(c) ==
    LET m == RegexMatch(c)
    IN  IF IsUndefined(m) THEN c
        ELSE SubSeq(c, 1, m.index - 1) \o SubSeq(c, m.last + 1, Len(c))

\* codeMatch ? codeMatch[1] : ""
ExtractCode(c) ==
    LET codeMatch == RegexMatch(c)
    IN  IF IsUndefined(codeMatch) THEN Empty ELSE codeMatch.group1

\* variant of ExtractExplanation without the trim() call
ExtractExplanation_NoTrim(c) == RemoveMatch(c)

\* content.replace(regex, "").trim()
ExtractExplanation(c) == Trim(RemoveMatch(c))

\* the AIResponse generateTestCode returns for the completion c
ParseContent(c) == [testCode |-> ExtractCode(c), explanation |-> ExtractExplanation(c)]

-----------------------------------------------------------------------------
(* playwright module: saveTestFile *)

\* TEST_DIR: path.join(process.cwd(), "tests")
TEST_DIR == <<"/cwd/tests">>

\* `test-${Date.now()}.spec.ts`
DefaultFilename(now) == <<"test-", ToString(now), ".spec.ts">>

\* variant of EffectiveFilename that always builds the timestamp name
EffectiveFilename_AlwaysDefault(t, now) == DefaultFilename(now)

\* test.filename || `test-${Date.now()}.spec.ts`
EffectiveFilename(t, now) ==
    IF Has(t, "filename") /\ t.filename # Empty THEN t.filename ELSE DefaultFilename(now)

\* path.join(TEST_DIR, filename)
FilePath(filename) == TEST_DIR \o <<"/">> \o filename

\* variant of WriteFile that stores the code trimmed of outer white space
WriteFile_Trimmed(dir, filePath, code) ==
    {f \in dir : f.name # filePath} \cup {[name |-> filePath, content |-> Trim(code)]}

\* variant of WriteFile that leaves an existing file of that name as it is
WriteFile_KeepsExisting(dir, filePath, code) ==
    IF \E f \in dir : f.name = filePath THEN dir
    ELSE dir \cup {[name |-> filePath, content |-> code]}

\* the directory after fs.writeFile(filePath, code) resolved
WriteFile(dir, filePath, code) ==
    {f \in dir : f.name # filePath} \cup {[name |-> filePath, content |-> code]}

\* "テストファイルの保存に失敗しました: "
MsgSaveFailed == "Saving the test file failed: "

\* variant of SaveError that drops the message of the error it caught
SaveError_NoCause(err) == [message |-> <<MsgSaveFailed>>]

\* the error saveTestFile rejects with, from the error its try block caught
SaveError(err) == [message |-> <<MsgSaveFailed>> \o err.message]

\* messages of the errors fs.mkdir and fs.writeFile reject with
MsgMkdirDenied == <<"EACCES: permission denied, mkdir">>
MsgWriteNoSpace == <<"ENOSPC: no space left on device, write">>

-----------------------------------------------------------------------------
(* playwright module: runTest *)

\* options?.browser is truthy
BrowserSet(o) == Has(o, "browser") /\ o.browser # Empty
\* variant of HeadlessOff that tests !options?.headless: an unset field counts
\* as false
HeadlessOff_Falsy(o) == ~(Has(o, "headless") /\ o.headless = TRUE)

\* options?.headless === false
HeadlessOff(o) == Has(o, "headless") /\ o.headless = FALSE
\* options?.timeout is truthy
TimeoutSet(o) == Has(o, "timeout") /\ o.timeout # 0

\* variant of BuildCommand that appends the timeout flag before the project
\* selector and the headed flag
BuildCommand_TimeoutFirst(testFilePath, o) ==
    <<"npx playwright test">> \o <<" ">> \o testFilePath
    \o (IF TimeoutSet(o) THEN <<" --timeout=", ToString(o.timeout)>> ELSE Empty)
    \o (IF BrowserSet(o) THEN <<" --project=">> \o o.browser ELSE Empty)
    \o (IF HeadlessOff(o) THEN <<" --headed">> ELSE Empty)

\* the command line; o is Undefined when no options are passed
BuildCommand(testFilePath, o) ==
    <<"npx playwright test">> \o <<" ">> \o testFilePath
    \o (IF BrowserSet(o) THEN <<" --project=">> \o o.browser ELSE Empty)
    \o (IF HeadlessOff(o) THEN <<" --headed">> ELSE Empty)
    \o (IF TimeoutSet(o) THEN <<" --timeout=", ToString(o.timeout)>> ELSE Empty)

\* "実行コマンド: " / "標準出力:" / "標準エラー出力:"
LabelCommand == "command: "
MarkStdout == <<"stdout:">>
MarkStderr == <<"stderr:">>
\* "テスト実行中にエラーが発生しました"
MsgRunError == <<"An error occurred while running the test">>

\* logs is a sequence of texts; the first entry is pushed before exec is called
CommandLog(command) == <<<<LabelCommand>> \o command>>

\* variant of SuccessResult that pushes the stdout block only when stdout is
\* not empty, as the failure path does
SuccessResult_SkipEmptyStdout(logs, out, duration) ==
    [success  |-> TRUE,
     duration |-> duration,
     logs     |-> logs
                  \o (IF out.stdout # Empty THEN <<MarkStdout, out.stdout>> ELSE <<>>)
                  \o (IF out.stderr # Empty THEN <<MarkStderr, out.stderr>> ELSE <<>>)]

\* the TestResult of the path on which execPromise resolved
SuccessResult(logs, out, duration) ==
    [success  |-> TRUE,
     duration |-> duration,
     logs     |-> logs \o <<MarkStdout, out.stdout>>
                  \o (IF out.stderr # Empty THEN <<MarkStderr, out.stderr>> ELSE <<>>)]

\* variant of FailureResult that always reports the fallback text
FailureResult_NoMessage(logs, execErr, duration) ==
    [success  |-> FALSE,
     duration |-> duration,
     error    |-> MsgRunError,
     logs     |-> logs
                  \o (IF Has(execErr, "stdout") /\ execErr.stdout # Empty
                      THEN <<MarkStdout, execErr.stdout>> ELSE <<>>)
                  \o (IF Has(execErr, "stderr") /\ execErr.stderr # Empty
                      THEN <<MarkStderr, execErr.stderr>> ELSE <<>>)]

\* variant of FailureResult that pushes the stderr block before the stdout
\* block
FailureResult_StderrFirst(logs, execErr, duration) ==
    [success  |-> FALSE,
     duration |-> duration,
     error    |-> IF Has(execErr, "message") /\ execErr.message # Empty
                  THEN execErr.message ELSE MsgRunError,
     logs     |-> logs
                  \o (IF Has(execErr, "stderr") /\ execErr.stderr # Empty
                      THEN <<MarkStderr, execErr.stderr>> ELSE <<>>)
                  \o (IF Has(execErr, "stdout") /\ execErr.stdout # Empty
                      THEN <<MarkStdout, execErr.stdout>> ELSE <<>>)]

\* variant of FailureResult without the fallback text: error is the message
\* of the rejection, unset when there is none
FailureResult_NoFallback(logs, execErr, duration) ==
    [success  |-> FALSE,
     duration |-> duration,
     logs     |-> logs
                  \o (IF Has(execErr, "stdout") /\ execErr.stdout # Empty
                      THEN <<MarkStdout, execErr.stdout>> ELSE <<>>)
                  \o (IF Has(execErr, "stderr") /\ execErr.stderr # Empty
                      THEN <<MarkStderr, execErr.stderr>> ELSE <<>>)]
    @@ Field("error", Has(execErr, "message"),
             IF Has(execErr, "message") THEN execErr.message ELSE Empty)

\* the TestResult of the path on which execPromise rejected with execErr
FailureResult(logs, execErr, duration) ==
    [success  |-> FALSE,
     duration |-> duration,
     error    |-> IF Has(execErr, "message") /\ execErr.message # Empty
                  THEN execErr.message ELSE MsgRunError,
     logs     |-> logs
                  \o (IF Has(execErr, "stdout") /\ execErr.stdout # Empty
                      THEN <<MarkStdout, execErr.stdout>> ELSE <<>>)
                  \o (IF Has(execErr, "stderr") /\ execErr.stderr # Empty
                      THEN <<MarkStderr, execErr.stderr>> ELSE <<>>)]

-----------------------------------------------------------------------------
(* playwright module: formatTestResult *)

\* logs.join("\n")
RECURSIVE Join(_)
Join(logs) ==
    IF Len(logs) = 0 THEN Empty
    ELSE IF Len(logs) = 1 THEN logs[1]
    ELSE logs[1] \o <<"\n">> \o Join(Tail(logs))

\* variant of formatTestResult that prints the error line of a successful
\* result too
formatTestResult_ErrorOnSuccess(r) ==
    (IF r.success THEN <<"[OK] test passed", "\n">> ELSE <<"[NG] test failed", "\n">>)
    \o (IF Has(r, "error") /\ r.error # Empty
        THEN <<"error: ">> \o r.error \o <<"\n">> ELSE Empty)
    \o <<"duration: ", ToString(r.duration), "ms", "\n", "\n">>
    \o <<"--- logs ---", "\n">>
    \o Join(r.logs)

\* "✅ テストが成功しました\n" / "❌ テストが失敗しました\n" / "エラー: " /
\* "実行時間: " / "--- ログ ---\n"
formatTestResult(r) ==
    (IF r.success
     THEN <<"[OK] test passed", "\n">>
     ELSE <<"[NG] test failed", "\n">>
          \o (IF Has(r, "error") /\ r.error # Empty
              THEN <<"error: ">> \o r.error \o <<"\n">> ELSE Empty))
    \o <<"duration: ", ToString(r.duration), "ms", "\n", "\n">>
    \o <<"--- logs ---", "\n">>
    \o Join(r.logs)

-----------------------------------------------------------------------------
(* cli module: getTestScenario *)

Digits == {"0", "1", "2", "3", "4", "5", "6", "7", "8", "9"}
DigitValue(d) == CASE d = "0" -> 0 [] d = "1" -> 1 [] d = "2" -> 2 [] d = "3" -> 3
                   [] d = "4" -> 4 [] d = "5" -> 5 [] d = "6" -> 6 [] d = "7" -> 7
                   [] d = "8" -> 8 [] d = "9" -> 9

RECURSIVE DecimalValue(_)
DecimalValue(t) ==
    IF Len(t) = 0 THEN 0
    ELSE 10 * DecimalValue(SubSeq(t, 1, Len(t) - 1)) + DigitValue(t[Len(t)])

\* the digits of an answer, without its sign
Unsigned(t) == IF Len(t) > 0 /\ t[1] = "-" THEN Tail(t) ELSE t

\* isNaN(Number(t)) for the answers the model draws: a run of white space is
\* 0, an optionally signed run of digits is its value, anything else is NaN
NumberIsNaN(t) ==
    LET u == Unsigned(Trim(t))
    IN  /\ Trim(t) # Empty
        /\ ~(Len(u) > 0 /\ \A i \in 1..Len(u) : u[i] \in Digits)

\* Number(t) when it is not NaN
Number(t) ==
    LET u == Trim(t)
    IN  IF u = Empty THEN 0
        ELSE IF u[1] = "-" THEN 0 - DecimalValue(Tail(u))
        ELSE DecimalValue(u)

\* ['chromium', 'firefox', 'webkit']
Browsers == {<<"chromium">>, <<"firefox">>, <<"webkit">>}

\* "テストシナリオの説明は必須です。"
MsgDescriptionRequired == <<"The scenario description is required.">>

\* options, from the four answers
CollectOptions(a) ==
       Field("browser", a.browser # Empty /\ a.browser \in Browsers, a.browser)
    @@ Field("headless", a.headless # Empty, ToLowerCase(a.headless) # <<"n">>)
    @@ Field("screenshot", a.screenshot # Empty, ToLowerCase(a.screenshot) = <<"y">>)
    @@ Field("timeout", a.timeout # Empty /\ ~NumberIsNaN(a.timeout),
             IF NumberIsNaN(a.timeout) THEN 0 ELSE Number(a.timeout))

\* the TestScenario getTestScenario returns for the answers a
getTestScenario(a) ==
       [description |-> a.description]
    @@ Field("url", a.url # Empty, a.url)
    @@ Field("options", ~IsUndefined(CollectOptions(a)), CollectOptions(a))

\* scenario.options as passed to runTest: Undefined when the field is unset
OptionsOf(s) == IF Has(s, "options") THEN s.options ELSE Undefined

\* the GeneratedTest generateTest returns
GeneratedTest(ai, now) ==
    [code |-> ai.testCode, filename |-> DefaultFilename(now), explanation |-> ai.explanation]

\* variant of Confirmed that accepts every answer that starts with y or Y
Confirmed_StartsWith(answer) ==
    Len(answer) >= 1 /\ ToLowerCase(<<answer[1]>>) = <<"y">>

\* the run confirmation is accepted: runTestInput.toLowerCase() === 'y'
Confirmed(answer) == ToLowerCase(answer) = <<"y">>

-----------------------------------------------------------------------------
(* Inputs *)

\* process.env at start-up; an unset variable is a missing field
\* (a variable set to "" is a field holding Empty)
EnvValues(v) == {[set |-> FALSE, value |-> Empty], [set |-> TRUE, value |-> Empty],
                 [set |-> TRUE, value |-> v]}
Envs ==
    {    Field("LLM", l, <<"local">>)
      @@ Field("API_KEY", k.set, k.value)
      @@ Field("LLM_BASE_URL", u.set, u.value)
      @@ Field("TEST_TARGET_BASE_URL", b, <<"http://base.example">>)
      : l \in BOOLEAN, k \in EnvValues(<<"test-api-key">>),
        u \in EnvValues(<<"http://localhost:1234">>), b \in BOOLEAN }

\* what the user types at the six questions of getTestScenario
Answers ==
    [description : {Empty, <<"log in and see the dashboard">>},
     url         : {Empty, <<"http://app.example">>},
     browser     : {Empty, <<"firefox">>},
     headless    : {Empty, <<"n">>},
     screenshot  : {Empty, <<"y">>},
     timeout     : {Empty, <<"0">>, <<"6", "0", "0", "0", "0">>}]

\* what the user types at the run confirmation
ConfirmAnswers == {<<"y">>, <<"Y">>, <<"n">>, <<"y", "e", "s">>, Empty}

\* completions the provider returns in a whole run
PipelineCompletions ==
    { OpenFence \o <<"a", "\n">> \o CloseFence \o <<"\n", "\n", "b">>,
      <<"b", " ", "a">> }

\* the JSON envelope of each variant around a completion c
LocalEnvelope(c) == [choices |-> <<[message |-> [content |-> c]]>>]
HostedEnvelope(c) == [content |-> <<[text |-> c]>>]
Envelope(local, c) == IF local THEN LocalEnvelope(c) ELSE HostedEnvelope(c)

JsonBody(v) == [kind |-> "object", value |-> v]

\* bodies of responses that are not ok
ErrorBodies ==
    { [kind |-> "text"],
      JsonBody(Undefined),
      JsonBody([error |-> [type |-> "invalid_request_error"]]),
      JsonBody([error |-> [message |-> <<"bad request">>]]) }

\* responses fetch resolves with, for the variant in use
Responses(local, completions) ==
       { [ok |-> FALSE, statusText |-> <<"Bad Request">>, body |-> b] : b \in ErrorBodies }
    \cup { [ok |-> TRUE, statusText |-> <<"OK">>, body |-> b] :
             b \in { [kind |-> "text"],
                     JsonBody(IF local THEN [choices |-> <<>>] ELSE [content |-> <<>>]) } }
    \cup { [ok |-> TRUE, statusText |-> <<"OK">>, body |-> JsonBody(Envelope(local, c))] :
             c \in completions }

\* what execPromise resolves with
ExecOutputs ==
    { [stdout |-> o, stderr |-> e] :
        o \in {Empty, <<"1 passed">>}, e \in {Empty, <<"warning">>} }

\* what execPromise rejects with.  child_process.exec rejects with an Error
\* that carries stdout and stderr: on a non-zero exit its message is
\* "Command failed: <command>\n<stderr>" and code is the exit status; when the
\* shell cannot be spawned stdout and stderr are empty and syscall is set.
\* The type the catch block declares also admits a value without message.
ExecErrors(command) ==
       { [code |-> 1, stdout |-> o, stderr |-> e,
          message |-> <<"Command failed: ">> \o command \o <<"\n">> \o e] :
            o \in {Empty, <<"1 failed">>}, e \in {Empty, <<"Timeout 30000ms exceeded">>} }
    \cup { [syscall |-> <<"spawn /bin/sh">>, stdout |-> Empty, stderr |-> Empty,
            message |-> <<"spawn /bin/sh ENOENT">>] }
    \cup { [stdout |-> <<"1 failed">>, stderr |-> <<"Timeout 30000ms exceeded">>] }

-----------------------------------------------------------------------------
(* cli module: runCLI *)

\* console.error entries
\* "AIによるテストコード生成中にエラーが発生しました:"
GenerateLog(err) == <<"Error while generating test code: ">> \o err.message
\* "テストファイルの保存中にエラーが発生しました:"
SaveLog(err) == <<"Error while saving the test file: ">> \o err.message
\* "\nエラーが発生しました:"
CaughtLog(err) == <<"An error occurred: ">> \o err.message

\* variant of Caught in which rl.close() is the last statement of the try
\* block instead of a finally block: an error skips it
Caught_NoFinally(err, logged, events) ==
    /\ thrown' = err
    /\ errLog' = errLog \o logged \o <<CaughtLog(err)>>
    /\ rlClosed' = rlClosed
    /\ trace' = trace \o events \o <<"catch">>
    /\ pc' = "done"

\* the catch and finally blocks of runCLI, entered with the error err after
\* the callee logged `logged` and the stage events `events` happened
Caught(err, logged, events) ==
    /\ thrown' = err
    /\ errLog' = errLog \o logged \o <<CaughtLog(err)>>
    /\ rlClosed' = rlClosed + 1
    /\ trace' = trace \o events \o <<"catch", "close">>
    /\ pc' = "done"

\* the finally block of runCLI, entered without an error
Finally(events) ==
    /\ rlClosed' = rlClosed + 1
    /\ trace' = trace \o events \o <<"close">>
    /\ pc' = "done"
    /\ UNCHANGED <<thrown, errLog>>

Init ==
    /\ pc = "collect"
    /\ env \in Envs
    /\ scenario = Undefined
    /\ prompt = Undefined
    /\ requests = <<>>
    /\ response = Undefined
    /\ aiResponse = Undefined
    /\ test = Undefined
    /\ files = {}
    /\ fsCalls = <<>>
    /\ spawned = <<>>
    /\ execError = Undefined
    /\ execOutput = Undefined
    /\ returnedPath = Undefined
    /\ runTestInput = Undefined
    /\ result = Undefined
    /\ report = Undefined
    /\ thrown = Undefined
    /\ errLog = <<>>
    /\ rlClosed = 0
    /\ run = Undefined
    /\ clock = 0
    /\ trace = <<>>

\* variant of GetTestScenario_Returns without the test of the description
GetTestScenario_Returns_NoCheck ==
    /\ pc = "collect"
    /\ \E a \in Answers :
        /\ scenario' = getTestScenario(a)
    /\ pc' = "generate"
    /\ trace' = Append(trace, "collect")
    /\ UNCHANGED <<env, runTestInput, returnedPath, prompt, requests, response,
                   aiResponse, test, files, fsCalls, spawned, execError, execOutput,
                   result, report, thrown, errLog, rlClosed, run, clock>>

\* getTestScenario returns
GetTestScenario_Returns ==
    /\ pc = "collect"
    /\ \E a \in Answers :
        /\ a.description # Empty
        /\ scenario' = getTestScenario(a)
    /\ pc' = "generate"
    /\ trace' = Append(trace, "collect")
    /\ UNCHANGED <<env, runTestInput, returnedPath, prompt, requests, response,
                   aiResponse, test, files, fsCalls, spawned, execError, execOutput,
                   result, report, thrown, errLog, rlClosed, run, clock>>

\* getTestScenario throws on an empty description
GetTestScenario_Throws ==
    /\ pc = "collect"
    /\ \E a \in Answers : a.description = Empty
    /\ Caught([message |-> MsgDescriptionRequired], <<>>, <<>>)
    /\ UNCHANGED <<env, runTestInput, returnedPath, scenario, prompt, requests,
                   response, aiResponse, test, files, fsCalls, spawned, execError,
                   execOutput, result, report, run, clock>>

\* generateTest: createPrompt, then generateTestCode up to its fetch call
GenerateTest_Fetch ==
    /\ pc = "generate"
    /\ IsUndefined(ConfigError(env))
    /\ prompt' = createPrompt(scenario, env)
    /\ requests' = Append(requests, BuildRequest(prompt', env))
    /\ pc' = "fetch"
    /\ trace' = trace \o <<"createPrompt", "fetch">>
    /\ UNCHANGED <<env, runTestInput, returnedPath, scenario, response, aiResponse,
                   test, files, fsCalls, spawned, execError, execOutput, result,
                   report, thrown, errLog, rlClosed, run, clock>>

\* generateTest: createPrompt, then generateTestCode throws in a configuration
\* getter before any fetch call
GenerateTest_ConfigError ==
    /\ pc = "generate"
    /\ ~IsUndefined(ConfigError(env))
    /\ prompt' = createPrompt(scenario, env)
    /\ Caught(GenerateError(ConfigError(env)), <<GenerateLog(ConfigError(env))>>,
              <<"createPrompt">>)
    /\ UNCHANGED <<env, runTestInput, returnedPath, scenario, requests, response,
                   aiResponse, test, files, fsCalls, spawned, execError, execOutput,
                   result, report, run, clock>>

\* fetch rejects: transport failure
Fetch_Rejects ==
    /\ pc = "fetch"
    /\ Caught(GenerateError([message |-> MsgFetchFailed]),
              <<GenerateLog([message |-> MsgFetchFailed])>>, <<"fetchRejected">>)
    /\ UNCHANGED <<env, runTestInput, returnedPath, scenario, prompt, requests,
                   response, aiResponse, test, files, fsCalls, spawned, execError,
                   execOutput, result, report, run, clock>>

\* fetch resolves with a Response; generateTestCode goes on to response.json()
Fetch_Resolves ==
    /\ pc = "fetch"
    /\ response' \in Responses(isLocalLLM(env), PipelineCompletions)
    /\ pc' = "json"
    /\ trace' = Append(trace, "fetchResolved")
    /\ UNCHANGED <<env, runTestInput, returnedPath, scenario, prompt, requests,
                   aiResponse, test, files, fsCalls, spawned, execError, execOutput,
                   result, report, thrown, errLog, rlClosed, run, clock>>

\* variant of Response_NotOk that sends the request again instead of throwing
Response_NotOk_Retries ==
    /\ pc = "json"
    /\ ~response.ok
    /\ Len(requests) < 3
    /\ requests' = Append(requests, BuildRequest(prompt, env))
    /\ pc' = "fetch"
    /\ trace' = Append(trace, "fetch")
    /\ UNCHANGED <<env, runTestInput, returnedPath, scenario, prompt, response,
                   aiResponse, test, files, fsCalls, spawned, execError, execOutput,
                   result, report, thrown, errLog, rlClosed, run, clock>>

\* the response is not ok: generateTestCode throws
Response_NotOk ==
    /\ pc = "json"
    /\ ~response.ok
    /\ Caught(GenerateError(NotOkError(response)), <<GenerateLog(NotOkError(response))>>,
              <<"responseRejected">>)
    /\ UNCHANGED <<env, runTestInput, returnedPath, scenario, prompt, requests,
                   response, aiResponse, test, files, fsCalls, spawned, execError,
                   execOutput, result, report, run, clock>>

\* the response is ok and its body does not hold a completion
Response_Unreadable ==
    /\ pc = "json"
    /\ response.ok
    /\ ~ContentReadable(isLocalLLM(env), response)
    /\ Caught(GenerateError(OkError(response)), <<GenerateLog(OkError(response))>>,
              <<"responseRejected">>)
    /\ UNCHANGED <<env, runTestInput, returnedPath, scenario, prompt, requests,
                   response, aiResponse, test, files, fsCalls, spawned, execError,
                   execOutput, result, report, run, clock>>

\* the response is ok: generateTestCode parses the completion and returns,
\* generateTest returns, executeTest prints and asks the run confirmation
Response_Ok ==
    /\ pc = "json"
    /\ response.ok
    /\ ContentReadable(isLocalLLM(env), response)
    /\ aiResponse' = ParseContent(ExtractContent(isLocalLLM(env), response))
    /\ test' = GeneratedTest(aiResponse', clock)
    /\ pc' = "confirm"
    /\ trace' = Append(trace, "parse")
    /\ UNCHANGED <<env, runTestInput, returnedPath, scenario, prompt, requests,
                   response, files, fsCalls, spawned, execError, execOutput, result,
                   report, thrown, errLog, rlClosed, run, clock>>


\* executeTest: the user declines, executeTest returns
Confirm_Skip ==
    /\ pc = "confirm"
    /\ \E a \in ConfirmAnswers : ~Confirmed(a) /\ runTestInput' = a
    /\ Finally(<<"skip">>)
    /\ UNCHANGED <<env, returnedPath, scenario, prompt, requests, response, aiResponse,
                   test, files, fsCalls, spawned, execError, execOutput, result,
                   report, run, clock>>

\* variant of Confirm_Run in which saveTestFile refuses an empty code string
\* (if (!test.code) throw ...)
Confirm_Run_RejectsEmpty ==
    /\ pc = "confirm"
    /\ \E a \in ConfirmAnswers : Confirmed(a) /\ runTestInput' = a
    /\ IF test.code = Empty
       THEN /\ Caught(SaveError([message |-> <<"the test code is empty">>]),
                      <<SaveLog([message |-> <<"the test code is empty">>])>>,
                      <<"saveRejected">>)
            /\ UNCHANGED <<fsCalls, run>>
       ELSE /\ fsCalls' = Append(fsCalls, [op |-> "mkdir", path |-> TEST_DIR])
            /\ pc' = "mkdir"
            /\ trace' = Append(trace, "mkdir")
            /\ UNCHANGED <<thrown, errLog, rlClosed, run>>
    /\ UNCHANGED <<env, returnedPath, scenario, prompt, requests, response, aiResponse,
                   test, files, spawned, execError, execOutput, result, report, clock>>

\* executeTest: the user confirms, saveTestFile is called and calls fs.mkdir
Confirm_Run ==
    /\ pc = "confirm"
    /\ \E a \in ConfirmAnswers : Confirmed(a) /\ runTestInput' = a
    /\ fsCalls' = Append(fsCalls, [op |-> "mkdir", path |-> TEST_DIR])
    /\ pc' = "mkdir"
    /\ trace' = Append(trace, "mkdir")
    /\ UNCHANGED <<env, returnedPath, scenario, prompt, requests, response, aiResponse,
                   test, files, spawned, execError, execOutput, result, report, thrown,
                   errLog, rlClosed, run, clock>>

\* fs.mkdir rejects: saveTestFile throws
Mkdir_Rejects ==
    /\ pc = "mkdir"
    /\ Caught(SaveError([message |-> MsgMkdirDenied]),
              <<SaveLog([message |-> MsgMkdirDenied])>>, <<"saveRejected">>)
    /\ UNCHANGED <<env, runTestInput, returnedPath, scenario, prompt, requests,
                   response, aiResponse, test, files, fsCalls, spawned, execError,
                   execOutput, result, report, run, clock>>

\* variant of Mkdir_Resolves in which executeTest does not await saveTestFile:
\* runTest calls exec while fs.writeFile is still pending
Mkdir_Resolves_NoAwait ==
    /\ pc = "mkdir"
    /\ LET path == FilePath(EffectiveFilename(test, clock))
           command == BuildCommand(path, OptionsOf(scenario))
       IN  /\ fsCalls' = Append(fsCalls, [op |-> "writeFile", path |-> path,
                                          data |-> test.code])
           /\ run' = [command |-> command, startTime |-> clock,
                      logs |-> CommandLog(command)]
           /\ spawned' = Append(spawned, command)
    /\ pc' = "exec"
    /\ trace' = trace \o <<"writeFile", "exec">>
    /\ UNCHANGED <<env, runTestInput, returnedPath, scenario, prompt, requests,
                   response, aiResponse, test, files, execError, execOutput, result,
                   report, thrown, errLog, rlClosed, clock>>

\* fs.mkdir resolves: saveTestFile calls fs.writeFile
Mkdir_Resolves ==
    /\ pc = "mkdir"
    /\ fsCalls' = Append(fsCalls, [op   |-> "writeFile",
                                   path |-> FilePath(EffectiveFilename(test, clock)),
                                   data |-> test.code])
    /\ pc' = "write"
    /\ trace' = Append(trace, "writeFile")
    /\ UNCHANGED <<env, runTestInput, returnedPath, scenario, prompt, requests,
                   response, aiResponse, test, files, spawned, execError, execOutput,
                   result, report, thrown, errLog, rlClosed, run, clock>>

\* variant of Write_Rejects in which the error is logged and the test is run all
\* the same
Write_Rejects_RunsAnyway ==
    /\ pc = "write"
    /\ LET w == fsCalls[Len(fsCalls)]
           command == BuildCommand(w.path, OptionsOf(scenario))
       IN  /\ run' = [command |-> command, startTime |-> clock,
                      logs |-> CommandLog(command)]
           /\ spawned' = Append(spawned, command)
    /\ thrown' = SaveError([message |-> MsgWriteNoSpace])
    /\ errLog' = Append(errLog, SaveLog([message |-> MsgWriteNoSpace]))
    /\ pc' = "exec"
    /\ trace' = trace \o <<"saveRejected", "exec">>
    /\ UNCHANGED <<env, runTestInput, returnedPath, scenario, prompt, requests,
                   response, aiResponse, test, files, fsCalls, execError, execOutput,
                   result, report, rlClosed, clock>>

\* fs.writeFile rejects: saveTestFile throws
Write_Rejects ==
    /\ pc = "write"
    /\ Caught(SaveError([message |-> MsgWriteNoSpace]),
              <<SaveLog([message |-> MsgWriteNoSpace])>>, <<"saveRejected">>)
    /\ UNCHANGED <<env, runTestInput, returnedPath, scenario, prompt, requests,
                   response, aiResponse, test, files, fsCalls, spawned, execError,
                   execOutput, result, report, run, clock>>

\* fs.writeFile resolves: saveTestFile returns the path, runTest builds the
\* command and calls exec
Write_Resolves ==
    /\ pc = "write"
    /\ LET w == fsCalls[Len(fsCalls)]
           command == BuildCommand(w.path, OptionsOf(scenario))
       IN  /\ files' = WriteFile(files, w.path, w.data)
           /\ returnedPath' = w.path
           /\ run' = [command |-> command, startTime |-> clock,
                      logs |-> CommandLog(command)]
           /\ spawned' = Append(spawned, command)
    /\ pc' = "exec"
    /\ trace' = trace \o <<"saved", "exec">>
    /\ UNCHANGED <<env, runTestInput, scenario, prompt, requests, response, aiResponse,
                   test, fsCalls, execError, execOutput, result, report, thrown,
                   errLog, rlClosed, clock>>

\* execPromise resolves: runTest returns a successful TestResult, executeTest
\* formats and prints it
Exec_Resolves ==
    /\ pc = "exec"
    /\ \E out \in ExecOutputs, d \in 0..MaxElapsed :
        /\ clock' = clock + d
        /\ execOutput' = out
        /\ result' = SuccessResult(run.logs, out, clock' - run.startTime)
    /\ report' = formatTestResult(result')
    /\ Finally(<<"execResolved", "format">>)
    /\ UNCHANGED <<env, runTestInput, returnedPath, scenario, prompt, requests,
                   response, aiResponse, test, files, fsCalls, spawned, execError,
                   run>>

\* execPromise rejects: the inner catch block of runTest returns a failed
\* TestResult, executeTest formats and prints it
Exec_Rejects ==
    /\ pc = "exec"
    /\ \E e \in ExecErrors(run.command), d \in 0..MaxElapsed :
        /\ clock' = clock + d
        /\ execError' = e
        /\ result' = FailureResult(run.logs, e, clock' - run.startTime)
    /\ report' = formatTestResult(result')
    /\ Finally(<<"execRejected", "format">>)
    /\ UNCHANGED <<env, runTestInput, returnedPath, scenario, prompt, requests,
                   response, aiResponse, test, files, fsCalls, spawned, execOutput,
                   run>>

Next ==
    \/ GetTestScenario_Returns
    \/ GetTestScenario_Throws
    \/ GenerateTest_Fetch
    \/ GenerateTest_ConfigError
    \/ Fetch_Rejects
    \/ Fetch_Resolves
    \/ Response_NotOk
    \/ Response_Unreadable
    \/ Response_Ok
    \/ Confirm_Skip
    \/ Confirm_Run
    \/ Mkdir_Rejects
    \/ Mkdir_Resolves
    \/ Write_Rejects
    \/ Write_Resolves
    \/ Exec_Resolves
    \/ Exec_Rejects

Spec == Init /\ [][Next]_vars

-----------------------------------------------------------------------------
(* The parse step alone: generateTestCode suspended on response.json() of   *)
(* an ok response, for each variant and each completion text of a bounded   *)
(* set.                                                                     *)

\* the pieces a completion text is assembled from
Segments ==
    {OpenFence, CloseFence, <<"BQ">>, <<"\n">>, <<" ">>, <<"a">>, <<"b">>}

\* all texts of at most n segments
RECURSIVE Concats(_)
Concats(n) ==
    IF n = 0 THEN {Empty}
    ELSE LET shorter == Concats(n - 1)
         IN  shorter \cup {t \o g : t \in shorter, g \in Segments}

\* the completion of the generateTestCode test, and one with two tagged blocks
ExampleCompletions ==
    { OpenFence \o <<"a", "\n">> \o CloseFence \o <<"\n", "\n", "b">>,
      <<"b", "\n">> \o OpenFence \o <<"a", "\n">> \o CloseFence \o <<"\n", "b", "\n">>
        \o OpenFence \o <<"b", "\n">> \o CloseFence \o <<"\n">> }

ParseCompletions == Concats(MaxSegs) \cup ExampleCompletions

\* a configured environment of each variant
ParseEnvs ==
    { [API_KEY |-> <<"test-api-key">>],
      [LLM |-> <<"local">>, LLM_BASE_URL |-> <<"http://localhost:1234">>] }

ParseScenario == [description |-> <<"log in and see the dashboard">>]

InitParse ==
    /\ pc = "json"
    /\ env \in ParseEnvs
    /\ scenario = ParseScenario
    /\ prompt = createPrompt(scenario, env)
    /\ requests = <<BuildRequest(prompt, env)>>
    /\ \E c \in ParseCompletions :
         response = [ok |-> TRUE, statusText |-> <<"OK">>,
                     body |-> JsonBody(Envelope(isLocalLLM(env), c))]
    /\ aiResponse = Undefined
    /\ test = Undefined
    /\ files = {}
    /\ fsCalls = <<>>
    /\ spawned = <<>>
    /\ execError = Undefined
    /\ execOutput = Undefined
    /\ returnedPath = Undefined
    /\ runTestInput = Undefined
    /\ result = Undefined
    /\ report = Undefined
    /\ thrown = Undefined
    /\ errLog = <<>>
    /\ rlClosed = 0
    /\ run = Undefined
    /\ clock = 0
    /\ trace = <<"collect", "createPrompt", "fetch", "fetchResolved">>

NextParse == Response_Ok

SpecParse == InitParse /\ [][NextParse]_vars

-----------------------------------------------------------------------------
(* Properties of the pipeline, checked under Spec *)

\* the place of a stage event in the pipeline; 0 for an event that ends it
StageRank(ev) ==
    CASE ev = "collect"       -> 1
      [] ev = "createPrompt"  -> 2
      [] ev = "fetch"         -> 3
      [] ev = "fetchResolved" -> 4
      [] ev = "parse"         -> 5
      [] ev = "mkdir"         -> 6
      [] ev = "writeFile"     -> 7
      [] ev = "saved"         -> 8
      [] ev = "exec"          -> 9
      [] ev \in {"execResolved", "execRejected"} -> 10
      [] ev = "format"        -> 11
      [] OTHER                -> 0

EventAt(ev) == {i \in DOMAIN trace : trace[i] = ev}
Happened(ev) == EventAt(ev) # {}

\* C1: in one runCLI invocation the stages run strictly in the order compile
\* prompt -> provider request -> parse -> persist -> execute -> format: every
\* stage event is immediately preceded by the event of the stage before it (no
\* stage starts before the previous one resolved, none is skipped or repeated),
\* the file is written before the subprocess is spawned, and the subprocess
\* has settled before the result is formatted.
C1_StagesInOrder ==
    /\ \A j \in DOMAIN trace :
          StageRank(trace[j]) > 1 =>
             /\ j > 1
             /\ StageRank(trace[j - 1]) = StageRank(trace[j]) - 1
    /\ \A i, j \in DOMAIN trace :
          (i < j /\ StageRank(trace[i]) > 0 /\ StageRank(trace[j]) > 0)
             => StageRank(trace[i]) < StageRank(trace[j])
    /\ spawned # <<>> =>
          \E f \in files : spawned[1] = BuildCommand(f.name, OptionsOf(scenario))
    /\ ~IsUndefined(report) => (~IsUndefined(result) /\ spawned # <<>>)
    /\ requests # <<>> => ~IsUndefined(prompt)
    /\ ~IsUndefined(aiResponse) => (requests # <<>> /\ ~IsUndefined(response))

\* a run that went through every stage, up to the formatted report
C1_Witness ==
    /\ pc = "done"
    /\ Happened("format")
    /\ ~IsUndefined(report)
    /\ Len(trace) = 12

\* C2: when the subprocess fails, runTest resolves with success = false and
\* error = the failure's message, or the fallback text when the failure has no
\* message; after a non-zero exit with stderr text S the error contains S and
\* the logs hold the stderr marker followed by S.
C2_FailedRunIsAResult ==
    ~IsUndefined(execError) =>
        /\ IsUndefined(thrown)
        /\ ~IsUndefined(result)
        /\ result.success = FALSE
        /\ result.error = (IF Has(execError, "message") THEN execError.message
                           ELSE MsgRunError)
        /\ (Has(execError, "code") /\ execError.stderr # Empty) =>
              /\ Contains(result.error, execError.stderr)
              /\ \E i \in 1..(Len(result.logs) - 1) :
                    /\ result.logs[i] = MarkStderr
                    /\ result.logs[i + 1] = execError.stderr

\* the subprocess exited non-zero with the stderr text of the failure scenario
C2_Witness ==
    /\ pc = "done"
    /\ Has(execError, "code")
    /\ execError.stderr = <<"Timeout 30000ms exceeded">>
    /\ ~IsUndefined(result)

\* the failure carried no message and the fallback text was used
C2_WitnessFallback ==
    /\ pc = "done"
    /\ ~IsUndefined(execError)
    /\ ~Has(execError, "message")
    /\ result.error = MsgRunError

\* C3 (as claimed): when the subprocess cannot be started at all, runTest
\* returns no TestResult and rejects with a thrown execution error.
C3_SpawnFailureIsThrown ==
    Has(execError, "syscall") => (IsUndefined(result) /\ ~IsUndefined(thrown))

\* the selected variant lacks its credential or endpoint
ConfigMissing ==
    IF Has(env, "LLM") /\ env.LLM = <<"local">>
    THEN ~Has(env, "LLM_BASE_URL") \/ env.LLM_BASE_URL = Empty
    ELSE ~Has(env, "API_KEY") \/ env.API_KEY = Empty

\* C4: when the credential (hosted) or endpoint (local) of the selected
\* variant is absent at call time, generateTestCode rejects with the
\* configuration error of that variant and no HTTP request is issued.
C4_ConfigErrorBeforeRequest ==
    (Happened("createPrompt") /\ ConfigMissing) =>
        /\ requests = <<>>
        /\ IsUndefined(response)
        /\ pc = "done"
        /\ ~IsUndefined(thrown)
        /\ thrown.message =
              <<MsgGenerateFailed>> \o
              (IF Has(env, "LLM") /\ env.LLM = <<"local">>
               THEN MsgBaseURLMissing ELSE MsgApiKeyMissing)

\* the local variant is selected and LLM_BASE_URL is unset, API_KEY being set
C4_Witness ==
    /\ pc = "done"
    /\ Happened("createPrompt")
    /\ Has(env, "LLM") /\ ~Has(env, "LLM_BASE_URL")
    /\ Has(env, "API_KEY") /\ env.API_KEY # Empty
    /\ ~IsUndefined(thrown)

\* C5 (as claimed): for every response that is not ok, generateTestCode
\* rejects with a message that embeds the body's error.message when the body
\* exposes one and the response's status text otherwise.
C5_NotOkEmbedsMessageOrStatus ==
    (~IsUndefined(response) /\ ~response.ok /\ pc = "done") =>
        /\ ~IsUndefined(thrown)
        /\ LET b == response.body
               exposed == /\ b.kind = "object"
                          /\ Has(b.value, "error")
                          /\ Has(b.value.error, "message")
           IN  Contains(thrown.message,
                        IF exposed THEN b.value.error.message ELSE response.statusText)

\* C6: no stage is retried: at most one HTTP request, one file write and one
\* subprocess per runCLI invocation, whatever the outcome of each stage.
C6_NoRetry ==
    /\ Len(requests) <= 1
    /\ Cardinality({i \in DOMAIN fsCalls : fsCalls[i].op = "writeFile"}) <= 1
    /\ Cardinality({i \in DOMAIN fsCalls : fsCalls[i].op = "mkdir"}) <= 1
    /\ Len(spawned) <= 1
    /\ Cardinality(EventAt("fetch")) = Len(requests)
    /\ Cardinality(EventAt("exec")) = Len(spawned)

\* the provider answered with an error and the run ended after one request
C6_Witness ==
    /\ pc = "done"
    /\ Len(requests) = 1
    /\ ~IsUndefined(response) /\ ~response.ok
    /\ ~IsUndefined(thrown)

\* generateTestCode / saveTestFile rejected: the error runCLI caught is theirs
GenerationFailed == ~IsUndefined(thrown) /\ thrown.message[1] = MsgGenerateFailed
PersistenceFailed == ~IsUndefined(thrown) /\ thrown.message[1] = MsgSaveFailed

\* C7: when generation fails no file is written and no subprocess is spawned;
\* when persistence fails runTest is never invoked and no result is formatted.
C7_FailureStopsPipeline ==
    /\ GenerationFailed =>
          /\ fsCalls = <<>> /\ files = {} /\ spawned = <<>>
          /\ IsUndefined(result) /\ IsUndefined(report)
    /\ PersistenceFailed =>
          /\ spawned = <<>> /\ IsUndefined(run)
          /\ IsUndefined(result) /\ IsUndefined(report)
          /\ ~Happened("format")

\* fs.writeFile was called and rejected
C7_Witness ==
    /\ pc = "done"
    /\ PersistenceFailed
    /\ Len(fsCalls) = 2

\* generateTestCode rejected after its request was answered
C7_WitnessGeneration ==
    /\ pc = "done"
    /\ GenerationFailed
    /\ Len(requests) = 1

-----------------------------------------------------------------------------
(* Properties of the parse step, checked under SpecParse *)

\* generateTestCode returned
Parsed == pc = "confirm" /\ ~IsUndefined(aiResponse)

\* the completion text the provider put into the response, read off the wire
\* format of the variant in use
WireCompletion ==
    IF Has(env, "LLM") /\ env.LLM = <<"local">>
    THEN response.body.value.choices[1].message.content
    ELSE response.body.value.content[1].text

\* an ok response of the given variant carrying the completion c
OkResponse(local, c) ==
    [ok |-> TRUE, statusText |-> <<"OK">>, body |-> JsonBody(Envelope(local, c))]

\* C8: the two provider variants are interchangeable downstream: what
\* generateTestCode returned for the completion c received from one variant is
\* what it returns for c received in the envelope of the other variant.
C8_VariantsInterchangeable ==
    Parsed =>
        LET c == WireCompletion
            other == ~(Has(env, "LLM") /\ env.LLM = <<"local">>)
        IN  /\ response = OkResponse(~other, c)
            /\ ContentReadable(other, OkResponse(other, c))
            /\ aiResponse = ParseContent(ExtractContent(other, OkResponse(other, c)))

\* the local variant returned for a completion that holds a tagged block
C8_Witness ==
    /\ Parsed
    /\ Has(env, "LLM")
    /\ WireCompletion = OpenFence \o <<"a">> \o CloseFence \o <<"b">>
    /\ aiResponse.testCode = <<"a">>

\* positions of the opening fences (three backquotes, the tag, a newline)
OpenPositions(c) == {i \in 1..Len(c) : OccursAt(c, OpenFence, i)}

\* positions of the closing fences (three backquotes) from position k on
ClosePositions(c, k) == {j \in k..Len(c) : OccursAt(c, CloseFence, j)}

\* c holds a fenced block tagged with the target language: an opening fence
\* and a closing fence after it
HasTaggedBlock(c) ==
    \E i \in OpenPositions(c) : ClosePositions(c, i + Len(OpenFence)) # {}

C10_NoBlockEmptyCode ==
    (Parsed /\ ~HasTaggedBlock(WireCompletion)) =>
        /\ aiResponse.testCode = Empty
        /\ aiResponse.explanation = Trim(WireCompletion)

\* an opening fence that is never closed, with white space around the text
C10_Witness ==
    /\ Parsed
    /\ WireCompletion = <<"\n">> \o OpenFence \o <<"a", " ">>
    /\ aiResponse.testCode = Empty
    /\ aiResponse.explanation = OpenFence \o <<"a">>

\* the fenced blocks of c that start after position k: a fence at p and the
\* next fence after it at q, whether the fence at p carries the tag or not
LaterBlocks(c, k) ==
    {b \in ((k + 1)..Len(c)) \X ((k + 1)..Len(c)) :
        /\ OccursAt(c, CloseFence, b[1])
        /\ ClosePositions(c, b[1] + Len(CloseFence)) # {}
        /\ b[2] = Min(ClosePositions(c, b[1] + Len(CloseFence)))}

\* the last position of the first tagged block of c
FirstBlockEnd(c) ==
    LET i == Min(OpenPositions(c))
    IN  Min(ClosePositions(c, i + Len(OpenFence))) + Len(CloseFence) - 1

\* C11: when the completion holds several fenced blocks, only the first tagged
\* block is extracted as code, and every fenced block after it is found in the
\* explanation character for character, all of them displaced by the same
\* distance, hence in their original order.
C11_LaterBlocksStay ==
    (/\ Parsed
     /\ HasTaggedBlock(WireCompletion)
     /\ LaterBlocks(WireCompletion, FirstBlockEnd(WireCompletion)) # {}) =>
        LET c == WireCompletion
            i == Min(OpenPositions(c))
            k == FirstBlockEnd(c)
            e == aiResponse.explanation
        IN  /\ aiResponse.testCode = SubSeq(c, i + Len(OpenFence), k - Len(CloseFence))
            /\ \E shift \in 0..Len(c) :
                  \A b \in LaterBlocks(c, k) :
                      /\ b[1] - shift >= 1
                      /\ b[2] + Len(CloseFence) - 1 - shift <= Len(e)
                      /\ SubSeq(e, b[1] - shift, b[2] + Len(CloseFence) - 1 - shift)
                            = SubSeq(c, b[1], b[2] + Len(CloseFence) - 1)

\* the completion with two tagged blocks: the second one is in the explanation
C11_Witness ==
    /\ Parsed
    /\ WireCompletion =
          <<"b", "\n">> \o OpenFence \o <<"a", "\n">> \o CloseFence \o <<"\n", "b", "\n">>
          \o OpenFence \o <<"b", "\n">> \o CloseFence \o <<"\n">>
    /\ aiResponse.testCode = <<"a", "\n">>
    /\ aiResponse.explanation =
          <<"b", "\n", "\n", "b", "\n">> \o OpenFence \o <<"b", "\n">> \o CloseFence

\* C12: parsing never fails.  While generateTestCode holds a successful
\* response (ok, with the completion text in the envelope of the variant), the
\* condition of the step that returns holds and the conditions of the steps
\* that throw do not, whatever the text is: empty, without a fence, with an
\* unterminated fence, with several fences.  Once the step is taken
\* generateTestCode has returned a {testCode, explanation} pair and no error
\* was thrown or logged.
C12_ParseNeverFails ==
    /\ pc = "json" =>
          /\ response = OkResponse(isLocalLLM(env), WireCompletion)
          /\ response.ok
          /\ ContentReadable(isLocalLLM(env), response)
    /\ pc # "json" =>
          /\ Parsed
          /\ DOMAIN aiResponse = {"testCode", "explanation"}
          /\ test.code = aiResponse.testCode
          /\ IsUndefined(thrown)
          /\ errLog = <<>>

\* the empty completion was parsed into two empty strings
C12_Witness ==
    /\ Parsed
    /\ WireCompletion = Empty
    /\ aiResponse = [testCode |-> Empty, explanation |-> Empty]
    /\ IsUndefined(thrown)

\* a completion with an unterminated fence after a complete block was parsed
C12_WitnessUnterminated ==
    /\ Parsed
    /\ WireCompletion = OpenFence \o CloseFence \o OpenFence \o <<"a">>
    /\ aiResponse = [testCode |-> Empty, explanation |-> OpenFence \o <<"a">>]

-----------------------------------------------------------------------------
(* Properties of the stages after generation, checked under Spec *)

\* generateTest returned a test whose code is the empty string
EmptyCode == ~IsUndefined(test) /\ test.code = Empty

\* C13: an empty code string is tolerated by every stage after generation.
\* When the code is empty, the confirmed run calls fs.mkdir and fs.writeFile as
\* for any other code, the data written is the empty string, the only errors
\* thrown are those of the file system, and after the write resolved the empty
\* file exists, exec was called on its path and runTest returns a TestResult.
C13_EmptyCodeTolerated ==
    EmptyCode =>
        /\ pc = "confirm" => ENABLED Confirm_Run
        /\ pc = "mkdir" => ENABLED Mkdir_Resolves
        /\ pc = "write" =>
              /\ fsCalls[Len(fsCalls)].data = Empty
              /\ ENABLED Write_Resolves
        /\ ~IsUndefined(thrown) =>
              /\ Happened("mkdir")
              /\ thrown \in {SaveError([message |-> MsgMkdirDenied]),
                              SaveError([message |-> MsgWriteNoSpace])}
        /\ Happened("saved") =>
              /\ \E f \in files : f.content = Empty /\ f.name = fsCalls[Len(fsCalls)].path
              /\ spawned = <<BuildCommand(fsCalls[Len(fsCalls)].path, OptionsOf(scenario))>>
              /\ IsUndefined(thrown)
              /\ pc = "exec" => (ENABLED Exec_Resolves /\ ENABLED Exec_Rejects)
              /\ pc = "done" => (~IsUndefined(result) /\ ~IsUndefined(report))

\* a completion without a tagged block, the run confirmed: the empty file was
\* written, the test was run on it and a result was returned
C13_Witness ==
    /\ pc = "done"
    /\ EmptyCode
    /\ ~HasTaggedBlock(WireCompletion)
    /\ Happened("saved")
    /\ \E f \in files : f.content = Empty
    /\ Len(spawned) = 1
    /\ ~IsUndefined(result)
    /\ IsUndefined(thrown)

-----------------------------------------------------------------------------
(* createPrompt alone: generateTest entered with each scenario the collector  *)
(* can return for a bounded set of answers, under each setting of the        *)
(* default base URL.                                                         *)

\* answers to the six questions: every branch of the option parsing
PromptAnswers ==
    [description : {<<"log in and see the dashboard">>},
     url         : {Empty, <<"http://app.example">>},
     browser     : {Empty, <<"firefox">>, <<"webkit">>, <<"safari">>},
     headless    : {Empty, <<"y">>, <<"n">>},
     screenshot  : {Empty, <<"y">>, <<"n">>},
     timeout     : {Empty, <<"0">>, <<"6", "0", "0", "0", "0">>, <<"-", "5">>,
                    <<"a", "b", "c">>}]

PromptScenarios == {getTestScenario(a) : a \in PromptAnswers}

\* the hosted variant with and without its key, the local variant, each with
\* TEST_TARGET_BASE_URL unset, empty and set
PromptEnvs ==
    { v @@ Field("TEST_TARGET_BASE_URL", b.set, b.value)
      : v \in {[API_KEY |-> <<"test-api-key">>],
               Undefined,
               [LLM |-> <<"local">>, LLM_BASE_URL |-> <<"http://localhost:1234">>]},
        b \in EnvValues(<<"http://base.example">>) }

InitPrompt ==
    /\ pc = "generate"
    /\ env \in PromptEnvs
    /\ scenario \in PromptScenarios
    /\ prompt = Undefined
    /\ requests = <<>>
    /\ response = Undefined
    /\ aiResponse = Undefined
    /\ test = Undefined
    /\ files = {}
    /\ fsCalls = <<>>
    /\ spawned = <<>>
    /\ execError = Undefined
    /\ execOutput = Undefined
    /\ returnedPath = Undefined
    /\ runTestInput = Undefined
    /\ result = Undefined
    /\ report = Undefined
    /\ thrown = Undefined
    /\ errLog = <<>>
    /\ rlClosed = 0
    /\ run = Undefined
    /\ clock = 0
    /\ trace = <<"collect">>

NextPrompt ==
    \/ GenerateTest_Fetch
    \/ GenerateTest_ConfigError

SpecPrompt == InitPrompt /\ [][NextPrompt]_vars

-----------------------------------------------------------------------------
(* Properties of createPrompt, checked under SpecPrompt *)

\* createPrompt returned
Compiled == ~IsUndefined(prompt)

\* the positions of the user prompt that hold the given label
LabelAt(label) == {i \in 1..Len(prompt.user) : prompt.user[i] = label}

\* the ambient default base URL is configured: set and not empty
BaseUrlConfigured ==
    Has(env, "TEST_TARGET_BASE_URL") /\ env.TEST_TARGET_BASE_URL # Empty

\* the position right after the description and its two newlines
AfterDescription == Len(PromptHead) + Len(scenario.description) + 3

\* C14: the user prompt holds a target-URL line built from scenario.url when
\* it is present, otherwise from the default base URL when it is configured,
\* otherwise no target-URL line; it never holds more than one.
C14_OneTargetUrlLine ==
    Compiled =>
        /\ Cardinality(LabelAt(LabelURL)) <= 1
        /\ IF Has(scenario, "url")
           THEN /\ LabelAt(LabelURL) = {AfterDescription}
                /\ OccursAt(prompt.user, <<LabelURL>> \o scenario.url \o <<"\n", "\n">>,
                            AfterDescription)
           ELSE IF BaseUrlConfigured
           THEN /\ LabelAt(LabelURL) = {AfterDescription}
                /\ OccursAt(prompt.user,
                            <<LabelURL>> \o env.TEST_TARGET_BASE_URL \o <<"\n", "\n">>,
                            AfterDescription)
           ELSE LabelAt(LabelURL) = {}

\* no scenario.url, the default base URL configured: the line is built from it
C14_Witness ==
    /\ Compiled
    /\ ~Has(scenario, "url")
    /\ BaseUrlConfigured
    /\ Contains(prompt.user, <<LabelURL, "http://base.example", "\n", "\n">>)

\* scenario.url present and the default base URL configured: scenario.url wins
C14_WitnessBoth ==
    /\ Compiled
    /\ Has(scenario, "url")
    /\ BaseUrlConfigured
    /\ Contains(prompt.user, <<LabelURL, "http://app.example", "\n", "\n">>)
    /\ ~Contains(prompt.user, <<"http://base.example">>)

\* the Options fields in the fixed order, each with its label and the text
\* its directive line carries after the label
Directives(o) ==
    << [field |-> "browser", label |-> LabelBrowser,
        text |-> IF Has(o, "browser") THEN o.browser ELSE Empty],
       [field |-> "headless", label |-> LabelHeadless,
        text |-> IF Has(o, "headless") THEN <<OnOff(o.headless)>> ELSE Empty],
       [field |-> "screenshot", label |-> LabelScreenshot,
        text |-> IF Has(o, "screenshot") THEN <<OnOff(o.screenshot)>> ELSE Empty],
       [field |-> "timeout", label |-> LabelTimeout,
        text |-> IF Has(o, "timeout") THEN <<ToString(o.timeout), "ms">> ELSE Empty] >>

\* the user prompt holds the line of each field of o that counts as set,
\* exactly once, no line for the other fields, and the lines in the fixed order
DirectiveLines(o, counts(_)) ==
    LET d == Directives(o)
    IN  /\ \A k \in 1..Len(d) :
              IF counts(d[k].field)
              THEN /\ Cardinality(LabelAt(d[k].label)) = 1
                   /\ \A i \in LabelAt(d[k].label) :
                         OccursAt(prompt.user, <<d[k].label>> \o d[k].text \o <<"\n">>, i)
              ELSE LabelAt(d[k].label) = {}
        /\ \A k, l \in 1..Len(d) :
              k < l => \A i \in LabelAt(d[k].label), j \in LabelAt(d[l].label) : i < j

\* C15: for every Options value the user prompt holds exactly one labeled
\* directive line for each field that is set and no line for a field that is
\* unset, and the lines appear in the order browser, headless, screenshot,
\* timeout.
C15_OneLinePerSetField ==
    Compiled =>
        LET o == OptionsOf(scenario)
            IsSet(f) == Has(o, f)
        IN  DirectiveLines(o, IsSet)

\* what the code does: as C15 states, but a timeout of 0 counts as unset
C15_ZeroTimeoutHasNoLine ==
    Compiled =>
        LET o == OptionsOf(scenario)
            IsTruthy(f) == Has(o, f) /\ (f = "timeout" => o.timeout # 0)
        IN  DirectiveLines(o, IsTruthy)

-----------------------------------------------------------------------------
(* runTest alone: executeTest suspended on the fs.writeFile call of           *)
(* saveTestFile, for each scenario the collector can return for a bounded    *)
(* set of answers; runTest is then called with scenario.options.             *)

\* the completion the test was generated from
RunTestCompletion == OpenFence \o <<"a", "\n">> \o CloseFence \o <<"\n", "\n", "b">>

InitRunTest ==
    /\ pc = "write"
    /\ env = [API_KEY |-> <<"test-api-key">>]
    /\ scenario \in PromptScenarios
    /\ prompt = createPrompt(scenario, env)
    /\ requests = <<BuildRequest(prompt, env)>>
    /\ response = OkResponse(FALSE, RunTestCompletion)
    /\ aiResponse = ParseContent(RunTestCompletion)
    /\ test = GeneratedTest(aiResponse, 0)
    /\ files = {}
    /\ fsCalls = <<[op |-> "mkdir", path |-> TEST_DIR],
                   [op |-> "writeFile", path |-> FilePath(EffectiveFilename(test, 0)),
                    data |-> test.code]>>
    /\ spawned = <<>>
    /\ execError = Undefined
    /\ execOutput = Undefined
    /\ returnedPath = Undefined
    /\ runTestInput = <<"y">>
    /\ result = Undefined
    /\ report = Undefined
    /\ thrown = Undefined
    /\ errLog = <<>>
    /\ rlClosed = 0
    /\ run = Undefined
    /\ clock = 0
    /\ trace = <<"collect", "createPrompt", "fetch", "fetchResolved", "parse", "mkdir",
                 "writeFile">>

NextRunTest ==
    \/ Write_Resolves
    \/ Exec_Resolves
    \/ Exec_Rejects

SpecRunTest == InitRunTest /\ [][NextRunTest]_vars

-----------------------------------------------------------------------------
(* Properties of the command runTest builds, checked under SpecRunTest *)

\* runTest built its command and handed it to exec
CommandBuilt == Len(spawned) = 1

\* the path saveTestFile returned
SavedPath == fsCalls[Len(fsCalls)].path

\* the number of positions of the command that hold the given atom
Occurrences(atom) == Cardinality({i \in 1..Len(spawned[1]) : spawned[1][i] = atom})

\* C16: the command is the base invocation, then the file path, then the
\* project selector for the browser (if set), then the headed flag (if added),
\* then the timeout flag (if added), and nothing else.
C16_CommandForm ==
    CommandBuilt =>
        LET o == OptionsOf(scenario)
        IN  \E project, headed, timeout \in BOOLEAN :
                /\ project <=> Has(o, "browser")
                /\ timeout => Has(o, "timeout")
                /\ spawned[1] =
                      <<"npx playwright test", " ">> \o SavedPath
                      \o (IF project THEN <<" --project=">> \o o.browser ELSE Empty)
                      \o (IF headed THEN <<" --headed">> ELSE Empty)
                      \o (IF timeout THEN <<" --timeout=", ToString(o.timeout)>>
                          ELSE Empty)

\* options {firefox, headless false, timeout 60000}: the example command
C16_Witness ==
    /\ CommandBuilt
    /\ OptionsOf(scenario) = [browser |-> <<"firefox">>, headless |-> FALSE,
                              timeout |-> 60000]
    /\ spawned[1] = <<"npx playwright test", " ", "/cwd/tests", "/", "test-", "0",
                      ".spec.ts", " --project=", "firefox", " --headed", " --timeout=",
                      "60000">>

\* C17: the command holds the headed flag if and only if options.headless is
\* explicitly false; with headless true, headless unset or no options at all
\* it holds neither a headed nor a headless flag.
C17_HeadedIffHeadlessFalse ==
    CommandBuilt =>
        LET o == OptionsOf(scenario)
        IN  /\ Occurrences(" --headed") =
                  (IF Has(o, "headless") /\ o.headless = FALSE THEN 1 ELSE 0)
            /\ Occurrences(" --headless") = 0

\* headless true with other options set: no headed flag
C17_Witness ==
    /\ CommandBuilt
    /\ Has(OptionsOf(scenario), "headless")
    /\ OptionsOf(scenario).headless = TRUE
    /\ Has(OptionsOf(scenario), "browser")
    /\ Occurrences(" --headed") = 0

\* no options at all: the command is the base invocation and the path
C17_WitnessNoOptions ==
    /\ CommandBuilt
    /\ IsUndefined(OptionsOf(scenario))
    /\ spawned[1] = <<"npx playwright test", " ">> \o SavedPath

\* C18: whenever options.timeout is set, whatever its numeric value, the
\* command holds a millisecond timeout flag carrying exactly that value; when
\* timeout is unset the command holds no timeout flag.
C18_TimeoutFlagIffSet ==
    CommandBuilt =>
        LET o == OptionsOf(scenario)
        IN  IF Has(o, "timeout")
            THEN /\ Occurrences(" --timeout=") = 1
                 /\ Contains(spawned[1], <<" --timeout=", ToString(o.timeout)>>)
            ELSE Occurrences(" --timeout=") = 0

\* what the code does: as C18 states, but for a timeout of 0 no flag is added
C18_ZeroTimeoutHasNoFlag ==
    CommandBuilt =>
        LET o == OptionsOf(scenario)
        IN  IF Has(o, "timeout") /\ o.timeout # 0
            THEN /\ Occurrences(" --timeout=") = 1
                 /\ Contains(spawned[1], <<" --timeout=", ToString(o.timeout)>>)
            ELSE Occurrences(" --timeout=") = 0

-----------------------------------------------------------------------------
(* Properties of the TestResult runTest returns, checked under Spec *)

\* runTest returned
Returned == ~IsUndefined(result)

\* C19: on successful process exit runTest returns success = true and logs
\* that are exactly the command-line entry, the stdout marker and the captured
\* stdout, followed by the stderr marker and the captured stderr if and only
\* if stderr is not empty; the stdout marker and the stdout entry are there
\* even when stdout is empty.
C19_SuccessLogs ==
    /\ ~IsUndefined(execOutput) => (Returned /\ result.success)
    /\ (Returned /\ result.success) =>
          /\ ~IsUndefined(execOutput)
          /\ result.logs =
                <<<<LabelCommand>> \o spawned[1], MarkStdout, execOutput.stdout>>
                \o (IF execOutput.stderr # Empty
                    THEN <<MarkStderr, execOutput.stderr>> ELSE <<>>)

\* the process exited with status 0, wrote nothing to stdout and a warning to
\* stderr: five entries, the third one empty
C19_Witness ==
    /\ Returned
    /\ result.success
    /\ execOutput = [stdout |-> Empty, stderr |-> <<"warning">>]
    /\ Len(result.logs) = 5
    /\ result.logs[2] = MarkStdout
    /\ result.logs[3] = Empty

\* what exec exposed of the output of the process: what it resolved with on
\* success, the fields of the error it rejected with on failure
Exposed == IF result.success THEN execOutput ELSE execError

\* the positions of logs that hold the given entry
LogAt(entry) == {i \in 1..Len(result.logs) : result.logs[i] = entry}

\* C20: in every TestResult runTest returns, on success and on failure alike,
\* the first log entry is the command-line entry, the other entries are
\* markers and captured outputs, every stdout entry precedes every stderr
\* entry, and each captured output entry directly follows the marker of its
\* stream; on failure a block is there exactly when the error exposes a
\* non-empty output of that stream, and it holds that output.
C20_LogsShape ==
    Returned =>
        LET logs == result.logs
            stream(marker) == IF marker = MarkStdout THEN "stdout" ELSE "stderr"
        IN  /\ logs[1] = <<LabelCommand>> \o spawned[1]
            /\ Cardinality(LogAt(MarkStdout)) <= 1
            /\ Cardinality(LogAt(MarkStderr)) <= 1
            /\ \A i \in LogAt(MarkStdout), j \in LogAt(MarkStderr) : i + 1 < j
            /\ \A i \in 2..Len(logs) :
                  IF logs[i] \in {MarkStdout, MarkStderr}
                  THEN /\ i < Len(logs)
                       /\ Has(Exposed, stream(logs[i]))
                       /\ logs[i + 1] = Exposed[stream(logs[i])]
                  ELSE i > 2 /\ logs[i - 1] \in {MarkStdout, MarkStderr}
            /\ ~result.success =>
                  /\ LogAt(MarkStdout) # {} <=>
                        (Has(execError, "stdout") /\ execError.stdout # Empty)
                  /\ LogAt(MarkStderr) # {} <=>
                        (Has(execError, "stderr") /\ execError.stderr # Empty)

\* the process exited with a non-zero status after writing to both streams:
\* the stdout block, then the stderr block
C20_Witness ==
    /\ Returned
    /\ ~result.success
    /\ Has(execError, "code")
    /\ Len(result.logs) = 5
    /\ result.logs[2] = MarkStdout
    /\ result.logs[3] = execError.stdout
    /\ result.logs[4] = MarkStderr
    /\ result.logs[5] = execError.stderr

\* the shell could not be spawned: the error exposes no output and the logs
\* hold the command-line entry only
C20_WitnessNoOutput ==
    /\ Returned
    /\ ~result.success
    /\ Has(execError, "syscall")
    /\ result.logs = <<<<LabelCommand>> \o spawned[1]>>

-----------------------------------------------------------------------------
(* saveTestFile alone: called directly, as its tests do, several times in a   *)
(* row on the same tests directory, with and without a filename.  pc is      *)
(* "save" between two calls; returnedPath and thrown hold the outcome of the *)
(* last call.                                                                *)

\* the GeneratedTest values saveTestFile is called with
SaveTests ==
    [code     : {Empty, <<"a", "\n">>, <<" ", "b">>},
     filename : {Empty, <<"login.spec.ts">>}]

\* a file of another name that is in the tests directory from the start
OtherFile == [name |-> FilePath(<<"other.spec.ts">>), content |-> <<"x">>]

InitSave ==
    /\ pc = "save"
    /\ env = [API_KEY |-> <<"test-api-key">>]
    /\ scenario = Undefined
    /\ prompt = Undefined
    /\ requests = <<>>
    /\ response = Undefined
    /\ aiResponse = Undefined
    /\ test = Undefined
    /\ files = {OtherFile}
    /\ fsCalls = <<>>
    /\ returnedPath = Undefined
    /\ runTestInput = Undefined
    /\ spawned = <<>>
    /\ execError = Undefined
    /\ execOutput = Undefined
    /\ result = Undefined
    /\ report = Undefined
    /\ thrown = Undefined
    /\ errLog = <<>>
    /\ rlClosed = 0
    /\ run = Undefined
    /\ clock = 0
    /\ trace = <<>>

\* saveTestFile(test) is called and calls fs.mkdir; time has passed since the
\* call before
SaveTestFile_Call ==
    /\ pc = "save"
    /\ Cardinality({i \in DOMAIN fsCalls : fsCalls[i].op = "mkdir"}) < MaxSaves
    /\ test' \in SaveTests
    /\ \E d \in 0..MaxElapsed : clock' = clock + d
    /\ fsCalls' = Append(fsCalls, [op |-> "mkdir", path |-> TEST_DIR])
    /\ returnedPath' = Undefined
    /\ thrown' = Undefined
    /\ pc' = "mkdir"
    /\ trace' = Append(trace, "mkdir")
    /\ UNCHANGED <<env, runTestInput, scenario, prompt, requests, response, aiResponse,
                   files, spawned, execError, execOutput, result, report, errLog,
                   rlClosed, run>>

\* fs.mkdir rejects: saveTestFile logs and rejects
SaveTestFile_MkdirRejects ==
    /\ pc = "mkdir"
    /\ thrown' = SaveError([message |-> MsgMkdirDenied])
    /\ errLog' = Append(errLog, SaveLog([message |-> MsgMkdirDenied]))
    /\ pc' = "save"
    /\ trace' = Append(trace, "saveRejected")
    /\ UNCHANGED <<env, runTestInput, returnedPath, scenario, prompt, requests,
                   response, aiResponse, test, files, fsCalls, spawned, execError,
                   execOutput, result, report, rlClosed, run, clock>>

\* fs.writeFile rejects: saveTestFile logs and rejects
SaveTestFile_WriteRejects ==
    /\ pc = "write"
    /\ thrown' = SaveError([message |-> MsgWriteNoSpace])
    /\ errLog' = Append(errLog, SaveLog([message |-> MsgWriteNoSpace]))
    /\ pc' = "save"
    /\ trace' = Append(trace, "saveRejected")
    /\ UNCHANGED <<env, runTestInput, returnedPath, scenario, prompt, requests,
                   response, aiResponse, test, files, fsCalls, spawned, execError,
                   execOutput, result, report, rlClosed, run, clock>>

\* fs.writeFile resolves: saveTestFile returns filePath
SaveTestFile_Returns ==
    /\ pc = "write"
    /\ LET w == fsCalls[Len(fsCalls)]
       IN  /\ files' = WriteFile(files, w.path, w.data)
           /\ returnedPath' = w.path
    /\ pc' = "save"
    /\ trace' = Append(trace, "saved")
    /\ UNCHANGED <<env, runTestInput, scenario, prompt, requests, response, aiResponse,
                   test, fsCalls, spawned, execError, execOutput, result, report,
                   thrown, errLog, rlClosed, run, clock>>

NextSave ==
    \/ SaveTestFile_Call
    \/ SaveTestFile_MkdirRejects
    \/ Mkdir_Resolves
    \/ SaveTestFile_WriteRejects
    \/ SaveTestFile_Returns

SpecSave == InitSave /\ [][NextSave]_vars

-----------------------------------------------------------------------------
(* Properties of saveTestFile, checked under SpecSave *)

\* the last file-system call saveTestFile issued
LastCall == fsCalls[Len(fsCalls)]

\* saveTestFile returned from its last call
SaveReturned == pc = "save" /\ ~IsUndefined(returnedPath)

\* saveTestFile rejected its last call
SaveRejected == pc = "save" /\ ~IsUndefined(thrown)

\* the path the claim states for the test being saved: the artifacts
\* directory, a separator, and the provided filename when it is not empty,
\* "test-<millisecond timestamp>.spec.ts" otherwise
StatedPath ==
    <<"/cwd/tests", "/">>
    \o (IF test.filename # Empty THEN test.filename
        ELSE <<"test-", ToString(clock), ".spec.ts">>)

\* C21: saveTestFile writes to <artifacts directory>/<effective filename> and
\* returns that path; the effective filename is the provided filename when it
\* is not empty and "test-<millisecond timestamp>.spec.ts" otherwise.
C21_PathAndFilename ==
    /\ pc = "write" => (LastCall.op = "writeFile" /\ LastCall.path = StatedPath)
    /\ SaveReturned =>
          /\ LastCall.op = "writeFile"
          /\ LastCall.path = StatedPath
          /\ returnedPath = StatedPath
          /\ \E f \in files : f.name = StatedPath

\* an empty filename at time 1: the timestamp name
C21_Witness ==
    /\ SaveReturned
    /\ test.filename = Empty
    /\ clock = 1
    /\ returnedPath = <<"/cwd/tests", "/", "test-", "1", ".spec.ts">>

\* a provided filename: the path ends with it
C21_WitnessProvided ==
    /\ SaveReturned
    /\ test.filename = <<"login.spec.ts">>
    /\ returnedPath = <<"/cwd/tests", "/", "login.spec.ts">>

\* the files of the tests directory stored under the given path
FilesAt(path) == {f \in files : f.name = path}

\* C22: round trip: after saveTestFile(gt) resolved with path p, the content
\* stored at p is exactly gt.code, nothing added, trimmed or transformed, for
\* every code string, the empty one included.
C22_RoundTrip ==
    SaveReturned =>
        /\ Cardinality(FilesAt(returnedPath)) = 1
        /\ \A f \in FilesAt(returnedPath) : f.content = test.code

\* a code string that starts with white space is stored as it is
C22_Witness ==
    /\ SaveReturned
    /\ test.code = <<" ", "b">>
    /\ FilesAt(returnedPath) = {[name |-> returnedPath, content |-> <<" ", "b">>]}

\* the empty code string is stored as an empty file
C22_WitnessEmpty ==
    /\ SaveReturned
    /\ test.code = Empty
    /\ FilesAt(returnedPath) = {[name |-> returnedPath, content |-> Empty]}

\* C23: when fs.mkdir or fs.writeFile fails, saveTestFile rejects with a
\* storage error whose message embeds the message of the cause, and returns
\* no path; after a failure of fs.mkdir no fs.writeFile call follows.
C23_StorageError ==
    /\ SaveRejected =>
          /\ IsUndefined(returnedPath)
          /\ thrown.message[1] = MsgSaveFailed
          /\ IF LastCall.op = "mkdir"
             THEN thrown.message = <<MsgSaveFailed>> \o MsgMkdirDenied
             ELSE thrown.message = <<MsgSaveFailed>> \o MsgWriteNoSpace
          /\ trace[Len(trace)] = "saveRejected"
    /\ \A i \in DOMAIN trace :
          (trace[i] = "saveRejected" /\ i > 1 /\ trace[i - 1] = "mkdir") =>
              (i < Len(trace) => trace[i + 1] = "mkdir")

\* fs.mkdir failed: the last file-system call is that mkdir, nothing written
C23_Witness ==
    /\ SaveRejected
    /\ LastCall.op = "mkdir"
    /\ Contains(thrown.message, MsgMkdirDenied)
    /\ files = {OtherFile}

\* fs.writeFile failed
C23_WitnessWrite ==
    /\ SaveRejected
    /\ LastCall.op = "writeFile"
    /\ Contains(thrown.message, MsgWriteNoSpace)

\* a pending fs.writeFile can resolve, whether a file of that name exists or
\* not; the tests directory never holds two files of one name; after
\* saveTestFile returned the file of that name holds the code of this call and
\* no error is held
OverwriteState ==
    /\ pc = "write" => ENABLED SaveTestFile_Returns
    /\ \A f, g \in files : f.name = g.name => f = g
    /\ SaveReturned =>
          /\ FilesAt(returnedPath) = {[name |-> returnedPath, content |-> test.code]}
          /\ IsUndefined(thrown)

\* the step in which saveTestFile returns leaves the files of other names as
\* they are, adds no file of another name and logs no error
OverwriteStep ==
    (pc = "write" /\ pc' = "save" /\ ~IsUndefined(returnedPath')) =>
        /\ {f \in files' : f.name # returnedPath'} = {f \in files : f.name # returnedPath'}
        /\ errLog' = errLog

\* C24: persisting twice under the same explicit filename overwrites
\* silently: the second saveTestFile succeeds without error, the tests
\* directory holds a single file of that name whose content is the second
\* code string, and files with other names are left unchanged.
C24_OverwritesSilently == []OverwriteState /\ [][OverwriteStep]_vars

\* two calls under the same explicit filename with different code, both
\* returned: the file holds the second code, the other file is as it was
C24_Witness ==
    /\ SaveReturned
    /\ trace = <<"mkdir", "writeFile", "saved", "mkdir", "writeFile", "saved">>
    /\ fsCalls[2].path = FilePath(<<"login.spec.ts">>)
    /\ fsCalls[4].path = FilePath(<<"login.spec.ts">>)
    /\ fsCalls[2].data = <<"a", "\n">>
    /\ fsCalls[4].data = <<" ", "b">>
    /\ files = {OtherFile,
                [name |-> FilePath(<<"login.spec.ts">>), content |-> <<" ", "b">>]}

-----------------------------------------------------------------------------
(* formatTestResult alone: called directly, as its tests do, with each        *)
(* TestResult of a bounded set, those runTest never returns included (an     *)
(* error field on a successful result, an empty error, empty logs).          *)

FormatLogs ==
    { <<>>,
      <<<<LabelCommand, "npx playwright test", " ", "/cwd/tests", "/", "login.spec.ts">>>>,
      <<<<LabelCommand, "npx playwright test">>, MarkStdout, Empty>>,
      <<<<LabelCommand, "npx playwright test">>, MarkStdout, <<"1 passed">>,
        MarkStderr, <<"warning">>>> }

FormatResults ==
    { [success |-> s, duration |-> d, logs |-> l] @@ Field("error", e.set, e.value)
      : s \in BOOLEAN, d \in {0, 1, 1234}, l \in FormatLogs,
        e \in EnvValues(<<"Command failed: ", "npx playwright test">>) }

InitFormat ==
    /\ pc = "format"
    /\ env = [API_KEY |-> <<"test-api-key">>]
    /\ scenario = Undefined
    /\ prompt = Undefined
    /\ requests = <<>>
    /\ response = Undefined
    /\ aiResponse = Undefined
    /\ test = Undefined
    /\ files = {}
    /\ fsCalls = <<>>
    /\ returnedPath = Undefined
    /\ runTestInput = Undefined
    /\ spawned = <<>>
    /\ execError = Undefined
    /\ execOutput = Undefined
    /\ result \in FormatResults
    /\ report = Undefined
    /\ thrown = Undefined
    /\ errLog = <<>>
    /\ rlClosed = 0
    /\ run = Undefined
    /\ clock = 0
    /\ trace = <<>>

\* formatTestResult(result) returns
FormatTestResult_Returns ==
    /\ pc = "format"
    /\ report' = formatTestResult(result)
    /\ pc' = "done"
    /\ trace' = Append(trace, "format")
    /\ UNCHANGED <<env, runTestInput, returnedPath, scenario, prompt, requests,
                   response, aiResponse, test, files, fsCalls, spawned, execError,
                   execOutput, result, thrown, errLog, rlClosed, run, clock>>

NextFormat == FormatTestResult_Returns

SpecFormat == InitFormat /\ [][NextFormat]_vars

-----------------------------------------------------------------------------
(* Properties of formatTestResult, checked under SpecFormat *)

\* formatTestResult returned
Formatted == pc = "done" /\ ~IsUndefined(report)

\* the result carries an error message
ErrorPresent == Has(result, "error") /\ result.error # Empty

\* where entry i of logs starts in the joined text, counted from 0
RECURSIVE LogOffset(_, _)
LogOffset(logs, i) ==
    IF i = 1 THEN 0 ELSE LogOffset(logs, i - 1) + Len(logs[i - 1]) + 1

\* t is the entries of logs in their order, one newline between two entries
IsJoined(t, logs) ==
    IF Len(logs) = 0 THEN t = Empty
    ELSE /\ Len(t) = LogOffset(logs, Len(logs)) + Len(logs[Len(logs)])
         /\ \A i \in 1..Len(logs) :
               /\ SubSeq(t, LogOffset(logs, i) + 1, LogOffset(logs, i) + Len(logs[i]))
                     = logs[i]
               /\ i < Len(logs) => t[LogOffset(logs, i) + Len(logs[i]) + 1] = "\n"

\* C25: formatTestResult returns exactly a status line (the success marker
\* when success is true; the failure marker otherwise, followed by an error
\* line if and only if the result carries an error message), then the
\* duration line, then the log-section header, then the logs joined in their
\* order with newlines; a successful result gets no error line even when it
\* carries an error.
C25_ReportLayout ==
    Formatted =>
        LET status == IF result.success THEN <<"[OK] test passed", "\n">>
                      ELSE <<"[NG] test failed", "\n">>
            error == IF ~result.success /\ ErrorPresent
                     THEN <<"error: ">> \o result.error \o <<"\n">> ELSE Empty
            head == status \o error
                    \o <<"duration: ", ToString(result.duration), "ms", "\n", "\n">>
                    \o <<"--- logs ---", "\n">>
        IN  /\ Len(report) >= Len(head)
            /\ SubSeq(report, 1, Len(head)) = head
            /\ IsJoined(SubSeq(report, Len(head) + 1, Len(report)), result.logs)
            /\ result.success => ~Contains(report, <<"error: ">>)

\* a successful result that carries an error: no error line
C25_Witness ==
    /\ Formatted
    /\ result.success
    /\ ErrorPresent
    /\ Len(result.logs) = 5
    /\ SubSeq(report, 1, 3) = <<"[OK] test passed", "\n", "duration: ">>

\* a failed result with an error and three log entries, the last one empty
C25_WitnessFailure ==
    /\ Formatted
    /\ ~result.success
    /\ ErrorPresent
    /\ result.duration = 1234
    /\ report = <<"[NG] test failed", "\n", "error: ", "Command failed: ",
                  "npx playwright test", "\n", "duration: ", "1234", "ms", "\n", "\n",
                  "--- logs ---", "\n", LabelCommand, "npx playwright test", "\n",
                  "stdout:", "\n">>

-----------------------------------------------------------------------------
(* Properties of runCLI and of the values it passes on, checked under Spec *)

\* executeTest received the answer to its run confirmation
Answered == Happened("parse") /\ pc # "confirm"

\* C26: when the user answers anything other than y or Y to the run
\* confirmation, executeTest returns without calling saveTestFile or runTest:
\* no file-system call is issued, no file is written, no subprocess is spawned
\* and no result is formatted.
C26_DeclinedRunsNothing ==
    (Answered /\ runTestInput \notin {<<"y">>, <<"Y">>}) =>
        /\ pc = "done"
        /\ Happened("skip")
        /\ fsCalls = <<>>
        /\ files = {}
        /\ IsUndefined(returnedPath)
        /\ spawned = <<>>
        /\ IsUndefined(run)
        /\ IsUndefined(result)
        /\ IsUndefined(report)
        /\ IsUndefined(thrown)

\* the user answered "yes": the run is skipped
C26_Witness ==
    /\ Answered
    /\ runTestInput = <<"y", "e", "s">>
    /\ Happened("skip")
    /\ fsCalls = <<>>
    /\ spawned = <<>>

\* the user pressed return without an answer: the run is skipped
C26_WitnessEmpty ==
    /\ Answered
    /\ runTestInput = Empty
    /\ Happened("skip")
    /\ ~IsUndefined(test)
    /\ files = {}

\* C27: the scenario description is never empty when it reaches createPrompt:
\* createPrompt is only called with a scenario getTestScenario returned, whose
\* description is not empty, and when the description typed is empty
\* getTestScenario throws before any generation step.
C27_DescriptionNeverEmpty ==
    /\ (Happened("createPrompt") \/ ~IsUndefined(prompt)) =>
          /\ Happened("collect")
          /\ ~IsUndefined(scenario)
          /\ scenario.description # Empty
          /\ Contains(prompt.user, scenario.description)
    /\ (~IsUndefined(thrown) /\ thrown.message = MsgDescriptionRequired) =>
          /\ IsUndefined(scenario)
          /\ IsUndefined(prompt)
          /\ requests = <<>>
          /\ trace = <<"catch", "close">>

\* the description typed was empty: getTestScenario threw, nothing was compiled
C27_Witness ==
    /\ pc = "done"
    /\ ~IsUndefined(thrown)
    /\ thrown.message = MsgDescriptionRequired
    /\ IsUndefined(prompt)
    /\ requests = <<>>

\* a description was typed and is part of the compiled prompt
C27_WitnessCompiled ==
    /\ ~IsUndefined(prompt)
    /\ scenario.description = <<"log in and see the dashboard">>
    /\ Contains(prompt.user, <<"log in and see the dashboard">>)

\* C28: in every scenario getTestScenario returns, options.timeout, if
\* present, is a positive integer.
C28_TimeoutPositive ==
    (~IsUndefined(scenario) /\ Has(OptionsOf(scenario), "timeout")) =>
        /\ scenario.options.timeout \in Int
        /\ scenario.options.timeout > 0

-----------------------------------------------------------------------------
(* runCLI under the assumption that every awaited operation settles: the     *)
(* user answers each question, fetch, response.json(), fs.mkdir,             *)
(* fs.writeFile and exec resolve or reject.                                  *)

SpecLive == Spec /\ WF_vars(Next)

\* rl.close() is called once, as the last step, and not before; an error
\* thrown by a stage is caught and reported by runCLI, which then ends; a
\* failed execution ends in a report that holds the error
ClosedOnce ==
    /\ pc # "done" => (rlClosed = 0 /\ ~Happened("close") /\ IsUndefined(thrown))
    /\ pc = "done" =>
          /\ rlClosed = 1
          /\ Cardinality(EventAt("close")) = 1
          /\ trace[Len(trace)] = "close"
    /\ ~IsUndefined(thrown) =>
          /\ Happened("catch")
          /\ errLog # <<>>
          /\ errLog[Len(errLog)] = CaughtLog(thrown)
    /\ ~IsUndefined(execError) =>
          /\ IsUndefined(thrown)
          /\ ~IsUndefined(report)
          /\ Contains(report, result.error)

\* C29: runCLI never rejects and always releases its input interface:
\* whichever stage fails (input collection, generation, persistence,
\* execution) or whether the user declines to run, runCLI reports the error,
\* ends normally, and rl.close() is called exactly once as its last step.
C29_AlwaysClosesOnce == []ClosedOnce /\ <>(pc = "done" /\ rlClosed = 1)

\* persistence failed: the error was reported and the interface closed once
C29_Witness ==
    /\ pc = "done"
    /\ PersistenceFailed
    /\ rlClosed = 1
    /\ errLog[Len(errLog)] = CaughtLog(thrown)

\* input collection failed
C29_WitnessCollection ==
    /\ pc = "done"
    /\ ~IsUndefined(thrown)
    /\ thrown.message = MsgDescriptionRequired
    /\ rlClosed = 1

\* generation failed
C29_WitnessGeneration ==
    /\ pc = "done"
    /\ GenerationFailed
    /\ rlClosed = 1

\* execution failed
C29_WitnessExecution ==
    /\ pc = "done"
    /\ ~IsUndefined(execError)
    /\ ~result.success
    /\ rlClosed = 1

\* the user declined to run
C29_WitnessDeclined ==
    /\ pc = "done"
    /\ Happened("skip")
    /\ rlClosed = 1

\* C30: every TestResult runTest returns carries an error field if and only
\* if success is false; when success is false the error is a non-empty text,
\* the message of the failure or the fallback text, and when success is true
\* no error field is set.
C30_ErrorIffFailure ==
    Returned =>
        /\ Has(result, "error") <=> ~result.success
        /\ result.success <=> ~IsUndefined(execOutput)
        /\ ~result.success =>
              /\ ~IsUndefined(execError)
              /\ result.error # Empty
              /\ result.error \in
                    (IF Has(execError, "message") THEN {execError.message} ELSE {})
                    \cup {<<"An error occurred while running the test">>}

\* exec rejected with a value that has no message: the fallback text
C30_Witness ==
    /\ Returned
    /\ ~result.success
    /\ ~Has(execError, "message")
    /\ Has(result, "error")
    /\ result.error = <<"An error occurred while running the test">>

\* exec resolved: success is true and no error field is set
C30_WitnessSuccess ==
    /\ Returned
    /\ result.success
    /\ DOMAIN result = {"success", "duration", "logs"}

====
